---- MODULE Spec2Model ----
(***************************************************************************)
(* Admin Policy Based Route node controller                                *)
(* (go-controller/pkg/ovn/controller/apbroute/node_controller.go).         *)
(*                                                                         *)
(* Three rate-limited work queues (route policies, namespaces, pods) are   *)
(* fed by informer event handlers and drained by pools of workers that     *)
(* call syncRoutePolicy / syncNamespace / syncPod.  The syncs read the     *)
(* informer listers and read and write the external policy manager's       *)
(* cache.  The manager (externalPolicyManager) is not part of the sources  *)
(* at hand; its operations are modelled from the design document.          *)
(***************************************************************************)
EXTENDS Integers, Sequences, FiniteSets, TLC

\* ------------------------------------------------------------------ bounds
\* workers per pool (the argument of Run)
Threadiness == 2
\* informer events delivered in one run from the start of the controller
MaxEvents == 4
\* informer events delivered in one run that starts from a synced cache
MaxWarmEvents == 2
\* informer events delivered in one run that ends with the stop signal
MaxStopEvents == 1
\* retry budget of the workers
maxRetries == 1
\* transient failures the collaborators may produce in one run
MaxFaults == 1
\* generations of a policy that the notifications handed to the handlers carry
MaxGeneration == 2
\* resource versions of a namespace that the notifications carry
MaxVersion == 2
\* pods in the pod queue when a notification is handed to a pod handler
MaxQueued == 2
\* informer events delivered in one run with two namespaces
MaxPairEvents == 3

Namespaces == {"ns1"}
Policies == {"P1"}
Pods == {"gw1"}
Kinds == {"policy", "namespace", "pod"}

\* the pod IPs of the gateway pod scenario ("" stands for no assigned IP)
PodIPs == {"192.168.1.9", "192.168.1.10"}

\* the specs a route policy may carry: From selector (as the set of
\* namespaces it selects), static gateway IPs, and whether it has a dynamic
\* gateway spec selecting the gateway pods
PolicySpecs ==
    { [from |-> {"ns1"}, static |-> {"10.0.0.5"}, dyn |-> FALSE],
      [from |-> {"ns1"}, static |-> {"10.0.0.6"}, dyn |-> TRUE] }

Workers == Kinds \X (1..Threadiness)
NoWorker == <<"none", 0>>

VARIABLES
    namespaceLister,  \* informer store of namespaces: set of namespace objects
    routeLister,      \* informer store of route policies
    podLister,        \* informer store of pods
    lastId,           \* last object id handed out per object name
    namespaceQueue,   \* work queue of namespace objects
    routeQueue,       \* work queue of route policy objects
    podQueue,         \* work queue of pod objects
    namespaceInfoCache, \* manager: namespace name -> NamespaceRouteInfo
    nsLock,           \* manager: holder of each namespace entry lock
    routePolicyCache, \* manager: policy name -> policy object last applied
    wk,               \* per worker: position and locals of the running sync
    faults,           \* transient failures produced so far
    eventsLeft,       \* informer events still to be delivered in this run
    run,              \* position of Run: serving, shutting the queues down,
                      \* waiting for the workers, returned
    resolved,         \* the last call of the resolve API: what the two
                      \* lookups gave and what the call returned
    notified          \* the last notification handed straight to a handler
                      \* of the policy informer, and the queue it found

vars == << namespaceLister, routeLister, podLister, lastId, namespaceQueue,
           routeQueue, podQueue, namespaceInfoCache, nsLock, routePolicyCache,
           wk, faults, eventsLeft, run, resolved, notified >>

listers == << namespaceLister, routeLister, podLister, lastId, eventsLeft >>
queues == << namespaceQueue, routeQueue, podQueue >>
manager == << namespaceInfoCache, nsLock, routePolicyCache >>

\* what the lookups of the resolve API find for a namespace in the cache:
\* the static and the dynamic gateway IPs of its entry, none without entry
EntrySnapshot(cache, ns) ==
    IF ns \in DOMAIN cache
    THEN [static |-> cache[ns].static,
          dynamic |-> { g[2] : g \in cache[ns].dynamic }]
    ELSE [static |-> {}, dynamic |-> {}]

\* while a call of the resolve API is between its two lookups, every step
\* records what the entry holds after it; otherwise resolved is unchanged
Watched ==
    IF "seen" \in DOMAIN resolved /\ ~resolved.made
    THEN [resolved EXCEPT
            !.seen = @ \cup {EntrySnapshot(namespaceInfoCache', resolved.ns)}]
    ELSE resolved

\* ------------------------------------------------------------ work queue
\* k8s.io/client-go/util/workqueue as the controller uses it.  Items are the
\* object pointers the handlers enqueue: two snapshots of one object name
\* are two items.

EmptyQueue ==
    [ queue |-> << >>, dirty |-> {}, processing |-> {}, requeues |-> << >>,
      waiting |-> {}, shuttingDown |-> FALSE ]

QAdd(q, it) ==
    IF q.shuttingDown \/ it \in q.dirty THEN q
    ELSE IF it \in q.processing THEN [q EXCEPT !.dirty = @ \cup {it}]
    ELSE [q EXCEPT !.dirty = @ \cup {it}, !.queue = Append(@, it)]

QGet(q) ==
    [q EXCEPT !.queue = Tail(@),
              !.processing = @ \cup {Head(q.queue)},
              !.dirty = @ \ {Head(q.queue)}]

QDone(q, it) ==
    IF it \in q.dirty
    THEN [q EXCEPT !.processing = @ \ {it}, !.queue = Append(@, it)]
    ELSE [q EXCEPT !.processing = @ \ {it}]

NumRequeues(q, it) ==
    IF it \in DOMAIN q.requeues THEN q.requeues[it] ELSE 0

\* an AddRateLimited that schedules the re-add on a queue that is shut down
QAddRateLimited_AfterShutDown(q, it) ==
    LET n == NumRequeues(q, it) + 1
        r == [x \in DOMAIN q.requeues \cup {it} |->
                 IF x = it THEN n ELSE q.requeues[x]]
    IN  [q EXCEPT !.requeues = r, !.waiting = @ \cup {it}]

QAddRateLimited(q, it) ==
    LET n == NumRequeues(q, it) + 1
        r == [x \in DOMAIN q.requeues \cup {it} |->
                 IF x = it THEN n ELSE q.requeues[x]]
    IN  IF q.shuttingDown THEN [q EXCEPT !.requeues = r]
        ELSE [q EXCEPT !.requeues = r, !.waiting = @ \cup {it}]

QForget(q, it) ==
    [q EXCEPT !.requeues = [x \in DOMAIN q.requeues \ {it} |-> q.requeues[x]]]

\* a delayed re-add that is lost when its delay elapses
QTimer_Lost(q, it) == [q EXCEPT !.waiting = @ \ {it}]

\* the delay of AddRateLimited elapses
QTimer(q, it) == QAdd([q EXCEPT !.waiting = @ \ {it}], it)

QItems(q) == q.dirty \cup q.processing \cup q.waiting

\* --------------------------------------------------------------- objects
Listed(lister, name) == { o \in lister : o.name = name }
TheListed(lister, name) == CHOOSE o \in lister : o.name = name

NamespaceObj(n, i, d) == [name |-> n, id |-> i, del |-> d]
PolicyObj(p, g, d, s) ==
    [name |-> p, id |-> g, del |-> d, from |-> s.from, static |-> s.static,
     dyn |-> s.dyn]
\* a pod: ip is Status.PodIPs ("" when none is assigned), labels the pod's
\* labels, net the network-status annotation ("" when absent or empty)
GatewayLabels == {"gateway"}
PodObj(p, i, d, ip) ==
    [name |-> p, id |-> i, del |-> d, ip |-> ip, labels |-> GatewayLabels,
     net |-> ""]

\* what an informer hands to a handler: a typed object, a typed nil pointer,
\* a DeletedFinalStateUnknown tombstone holding one of those, or a value of
\* another type.  obj holds the object, when there is one.
Typed(o) == [shape |-> "obj", obj |-> {o}]
Tombstone(o) == [shape |-> "tombstone", obj |-> {o}]
NilPayload == [shape |-> "nil", obj |-> {}]
OtherPayload == [shape |-> "other", obj |-> {}]
TombstoneNil == [shape |-> "tombstoneNil", obj |-> {}]
TombstoneOther == [shape |-> "tombstoneOther", obj |-> {}]
ObjOf(pl) == CHOOSE o \in pl.obj : TRUE

\* the dynamic type of an object: the resource kind it is a pointer to
KindOfObject(o) ==
    IF "from" \in DOMAIN o THEN "policy"
    ELSE IF "ip" \in DOMAIN o THEN "pod"
    ELSE "namespace"

\* a namespace handler whose type assertion lets a pod through
Asserted_PodAsNamespace(k, o) ==
    KindOfObject(o) = k \/ (k = "namespace" /\ KindOfObject(o) = "pod")

\* obj.(*T) in a handler of kind k: ok exactly when the value is a *T
Asserted(k, o) == KindOfObject(o) = k

\* what a handler of kind k is handed when the informer delivers object o,
\* bare or inside a DeletedFinalStateUnknown
Handed(k, o) ==
    IF Asserted(k, o) THEN Typed(o) ELSE [shape |-> "other", obj |-> {o}]
HandedTombstone(k, o) ==
    IF Asserted(k, o) THEN Tombstone(o)
    ELSE [shape |-> "tombstoneOther", obj |-> {o}]

\* -------------------------------------------------------- event handlers
\* an admission filter that looks at the deletion timestamp only
UpdateRejected_TerminatingOnly(old, new) == new.del

\* an admission filter that looks at the version only
UpdateRejected_VersionOnly(old, new) == old.id = new.id

\* the admission filter of onNamespaceUpdate / onPolicyUpdate: the update is
\* dropped when the version did not change or the new object is being deleted
UpdateRejected(old, new) == old.id = new.id \/ new.del

\* onNamespaceAdd, onPolicyAdd
onAdd(q, pl) ==
    IF pl.shape = "obj" THEN QAdd(q, ObjOf(pl)) ELSE q

\* onNamespaceUpdate, onPolicyUpdate
onUpdate(q, oldPl, newPl) ==
    IF oldPl.shape # "obj" \/ newPl.shape # "obj" THEN q
    ELSE IF UpdateRejected(ObjOf(oldPl), ObjOf(newPl)) THEN q
    ELSE QAdd(q, ObjOf(newPl))

\* a delete handler that does not look into tombstones
onDelete_TypedOnly(q, pl) ==
    IF pl.shape = "obj" THEN QAdd(q, ObjOf(pl)) ELSE q

\* onNamespaceDelete, onPolicyDelete, onPodDelete
onDelete(q, pl) ==
    IF pl.shape \in {"obj", "tombstone"} THEN QAdd(q, ObjOf(pl)) ELSE q

\* whether the handler reports an error (utilruntime.HandleError).  The add
\* and update handlers report every payload that is not a non-nil object of
\* their type; the delete handlers report a foreign type, alone or inside a
\* tombstone, and skip a nil pointer without a report.
AddKinds == {"add", "nsAdd", "podAdd"}
UpdateKinds == {"update", "nsUpdate", "podUpdate"}
DeleteKinds == {"delete", "nsDelete", "podDelete"}

Reports(kind, oldPl, newPl) ==
    IF kind \in AddKinds THEN newPl.shape # "obj"
    ELSE IF kind \in UpdateKinds
         THEN oldPl.shape # "obj" \/ newPl.shape # "obj"
    ELSE newPl.shape \in {"other", "tombstoneOther"}

\* onPodAdd: a pod without IPs and without network status is skipped
onPodAdd(q, pl) ==
    IF pl.shape # "obj" THEN q
    ELSE IF ObjOf(pl).ip = "" /\ ObjOf(pl).net = "" THEN q
    ELSE QAdd(q, ObjOf(pl))

\* a filter that compares the assigned IPs only
PodUpdateRejected_IPsOnly(old, new) == old.ip = new.ip

\* onPodUpdate: skipped when labels, IPs and network status are all the same
PodUpdateRejected(old, new) ==
    /\ old.labels = new.labels
    /\ old.ip = new.ip
    /\ old.net = new.net

onPodUpdate(q, oldPl, newPl) ==
    IF oldPl.shape # "obj" \/ newPl.shape # "obj" THEN q
    ELSE IF PodUpdateRejected(ObjOf(oldPl), ObjOf(newPl)) THEN q
    ELSE QAdd(q, ObjOf(newPl))

\* a delete notification arrives typed or wrapped in a tombstone
DeleteShapes(o) == { Typed(o), Tombstone(o) }

\* ------------------------------------------------------- informer events
\* Each event changes the informer store and calls the handler.

NamespaceAdded(n) ==
    /\ eventsLeft > 0
    /\ eventsLeft' = eventsLeft - 1
    /\ Listed(namespaceLister, n) = {}
    /\ LET o == NamespaceObj(n, lastId[n] + 1, FALSE)
       IN  /\ namespaceLister' = namespaceLister \cup {o}
           /\ namespaceQueue' = onAdd(namespaceQueue, Typed(o))
    /\ lastId' = [lastId EXCEPT ![n] = @ + 1]
    /\ UNCHANGED << routeLister, podLister, routeQueue, podQueue, manager, wk,
                    faults >>
    /\ UNCHANGED << run, notified >>
    /\ resolved' = Watched

\* a namespace changes (d = FALSE) or starts terminating (d = TRUE)
NamespaceUpdated(n, d) ==
    /\ eventsLeft > 0
    /\ eventsLeft' = eventsLeft - 1
    /\ Listed(namespaceLister, n) # {}
    /\ LET old == TheListed(namespaceLister, n)
           new == NamespaceObj(n, lastId[n] + 1, d)
       IN  /\ ~old.del
           /\ namespaceLister' = (namespaceLister \ {old}) \cup {new}
           /\ namespaceQueue' = onUpdate(namespaceQueue, Typed(old), Typed(new))
    /\ lastId' = [lastId EXCEPT ![n] = @ + 1]
    /\ UNCHANGED << routeLister, podLister, routeQueue, podQueue, manager, wk,
                    faults >>
    /\ UNCHANGED << run, notified >>
    /\ resolved' = Watched

NamespaceDeleted(n) ==
    /\ eventsLeft > 0
    /\ eventsLeft' = eventsLeft - 1
    /\ Listed(namespaceLister, n) # {}
    /\ LET old == TheListed(namespaceLister, n)
       IN  /\ namespaceLister' = namespaceLister \ {old}
           /\ \E pl \in DeleteShapes(old) :
                 namespaceQueue' = onDelete(namespaceQueue, pl)
    /\ UNCHANGED << routeLister, podLister, lastId, routeQueue, podQueue,
                    manager, wk, faults >>
    /\ UNCHANGED << run, notified >>
    /\ resolved' = Watched

RoutePolicyAdded(p, s) ==
    /\ eventsLeft > 0
    /\ eventsLeft' = eventsLeft - 1
    /\ Listed(routeLister, p) = {}
    /\ LET o == PolicyObj(p, lastId[p] + 1, FALSE, s)
       IN  /\ routeLister' = routeLister \cup {o}
           /\ routeQueue' = onAdd(routeQueue, Typed(o))
    /\ lastId' = [lastId EXCEPT ![p] = @ + 1]
    /\ UNCHANGED << namespaceLister, podLister, namespaceQueue, podQueue,
                    manager, wk, faults >>
    /\ UNCHANGED << run, notified >>
    /\ resolved' = Watched

RoutePolicyUpdated(p, s) ==
    /\ eventsLeft > 0
    /\ eventsLeft' = eventsLeft - 1
    /\ Listed(routeLister, p) # {}
    /\ LET old == TheListed(routeLister, p)
           new == PolicyObj(p, lastId[p] + 1, FALSE, s)
       IN  /\ [from |-> old.from, static |-> old.static, dyn |-> old.dyn] # s
           /\ routeLister' = (routeLister \ {old}) \cup {new}
           /\ routeQueue' = onUpdate(routeQueue, Typed(old), Typed(new))
    /\ lastId' = [lastId EXCEPT ![p] = @ + 1]
    /\ UNCHANGED << namespaceLister, podLister, namespaceQueue, podQueue,
                    manager, wk, faults >>
    /\ UNCHANGED << run, notified >>
    /\ resolved' = Watched

RoutePolicyDeleted(p) ==
    /\ eventsLeft > 0
    /\ eventsLeft' = eventsLeft - 1
    /\ Listed(routeLister, p) # {}
    /\ LET old == TheListed(routeLister, p)
       IN  /\ routeLister' = routeLister \ {old}
           /\ \E pl \in DeleteShapes(old) :
                 routeQueue' = onDelete(routeQueue, pl)
    /\ UNCHANGED << namespaceLister, podLister, lastId, namespaceQueue,
                    podQueue, manager, wk, faults >>
    /\ UNCHANGED << run, notified >>
    /\ resolved' = Watched

PodAdded(p, ip) ==
    /\ eventsLeft > 0
    /\ eventsLeft' = eventsLeft - 1
    /\ Listed(podLister, p) = {}
    /\ LET o == PodObj(p, lastId[p] + 1, FALSE, ip)
       IN  /\ podLister' = podLister \cup {o}
           /\ podQueue' = onPodAdd(podQueue, Typed(o))
    /\ lastId' = [lastId EXCEPT ![p] = @ + 1]
    /\ UNCHANGED << namespaceLister, routeLister, namespaceQueue, routeQueue,
                    manager, wk, faults >>
    /\ UNCHANGED << run, notified >>
    /\ resolved' = Watched

\* a pod gets another IP (d = FALSE) or starts terminating (d = TRUE)
PodUpdated(p, ip, d) ==
    /\ eventsLeft > 0
    /\ eventsLeft' = eventsLeft - 1
    /\ Listed(podLister, p) # {}
    /\ LET old == TheListed(podLister, p)
           new == PodObj(p, lastId[p] + 1, d, ip)
       IN  /\ ~old.del
           /\ d => ip = old.ip
           /\ ~d => ip # old.ip
           /\ podLister' = (podLister \ {old}) \cup {new}
           /\ podQueue' = onPodUpdate(podQueue, Typed(old), Typed(new))
    /\ lastId' = [lastId EXCEPT ![p] = @ + 1]
    /\ UNCHANGED << namespaceLister, routeLister, namespaceQueue, routeQueue,
                    manager, wk, faults >>
    /\ UNCHANGED << run, notified >>
    /\ resolved' = Watched

PodDeleted(p) ==
    /\ eventsLeft > 0
    /\ eventsLeft' = eventsLeft - 1
    /\ Listed(podLister, p) # {}
    /\ LET old == TheListed(podLister, p)
       IN  /\ podLister' = podLister \ {old}
           /\ \E pl \in DeleteShapes(old) :
                 podQueue' = onDelete(podQueue, pl)
    /\ UNCHANGED << namespaceLister, routeLister, lastId, namespaceQueue,
                    routeQueue, manager, wk, faults >>
    /\ UNCHANGED << run, notified >>
    /\ resolved' = Watched

\* ------------------------------------------- external policy manager
\* NamespaceRouteInfo: the policies matching the namespace, the resolved
\* static gateway IPs, the dynamic gateways as (pod, IP) pairs, and the
\* tombstone flag.
NewNamespaceInfo ==
    [Policies |-> {}, static |-> {}, dynamic |-> {}, markForDelete |-> FALSE]

MapPut(m, k, v) == [x \in DOMAIN m \cup {k} |-> IF x = k THEN v ELSE m[x]]
MapDel(m, k) == [x \in DOMAIN m \ {k} |-> m[x]]

\* getPoliciesForNamespace: the listed policies whose From selects the namespace
getPoliciesForNamespace(name) ==
    { o.name : o \in { x \in routeLister : name \in x.from } }

\* the policy objects a resolution reads: the object handed to the manager
\* (ov) for its own name, the listed object for every other name
PolicySpecsOf(pols, ov) ==
    UNION { IF \E o \in ov : o.name = p THEN { o \in ov : o.name = p }
            ELSE Listed(routeLister, p) : p \in pols }

LiveGateways ==
    { << o.name, o.ip >> : o \in { x \in podLister : ~x.del /\ x.ip # "" } }

HasDynamic(pols, ov) == \E o \in PolicySpecsOf(pols, ov) : o.dyn

\* Gateway resolver: the entry with Policies = pols and its IP sets resolved
Resolve(info, pols, ov) ==
    [info EXCEPT !.Policies = pols,
                 !.static = UNION { o.static : o \in PolicySpecsOf(pols, ov) },
                 !.dynamic = IF HasDynamic(pols, ov) THEN LiveGateways ELSE {}]

\* ResolveGatewayIPs of an entry
GatewayIPs(info) == info.static \cup { g[2] : g \in info.dynamic }

\* getRoutePolicyFromCache: found, and whether a namespace entry holding the
\* policy is a tombstone
PolicyFound(name) == name \in DOMAIN routePolicyCache
PolicyMarkedForDeletion(name) ==
    \E ns \in DOMAIN namespaceInfoCache :
        /\ namespaceInfoCache[ns].markForDelete
        /\ name \in namespaceInfoCache[ns].Policies

\* filterNamespacesUsingPodGateway: the reverse index pod -> namespaces
filterNamespacesUsingPodGateway(pod) ==
    { ns \in DOMAIN namespaceInfoCache :
        \E g \in namespaceInfoCache[ns].dynamic : g[1] = pod }

ListedNamespaces == { o.name : o \in namespaceLister }

\* the namespaces processAddPolicy / processUpdatePolicy / processDeletePolicy
\* visit
PolicyTargets(path, policy) ==
    IF path = "add" THEN policy.from \cap ListedNamespaces
    ELSE IF path = "update"
    THEN (policy.from \cap ListedNamespaces) \cup
         { ns \in DOMAIN namespaceInfoCache :
             policy.name \in namespaceInfoCache[ns].Policies }
    ELSE { ns \in DOMAIN namespaceInfoCache :
             policy.name \in namespaceInfoCache[ns].Policies }

\* the entry after the policy sync's visit
PolicyApplied(info, path, policy, ns) ==
    IF path # "delete" /\ ns \in policy.from
    THEN Resolve(info, info.Policies \cup {policy.name}, {policy})
    ELSE Resolve(info, info.Policies \ {policy.name}, {})

\* the policy cache after the policy sync has visited every namespace
PolicyCommitted(path, policy) ==
    IF path = "delete" THEN MapDel(routePolicyCache, policy.name)
    ELSE MapPut(routePolicyCache, policy.name, policy)

\* the namespaces processAddPod visits (the others get the reverse index)
PodTargets(path, namespaces) ==
    IF path = "add"
    THEN { ns \in DOMAIN namespaceInfoCache :
             HasDynamic(namespaceInfoCache[ns].Policies, {}) }
    ELSE namespaces

\* the entry after the pod sync's visit
PodApplied(info, path, pod) ==
    LET rest == { g \in info.dynamic : g[1] # pod.name }
    IN  [info EXCEPT !.dynamic =
            IF path = "delete" \/ pod.ip = "" THEN rest
            ELSE rest \cup { << pod.name, pod.ip >> }]

\* ------------------------------------------------------------- workers
IdleWorker ==
    [pc |-> "idle", item |-> << >>, err |-> "", path |-> "", matches |-> {},
     todo |-> {}, ns |-> "", old |-> << >>]

Item(w) == wk[w].item[1]
Holds(w, ns) == nsLock[ns] = w
Free(ns) == nsLock[ns] = NoWorker
Lock(w, ns) == [nsLock EXCEPT ![ns] = w]
\* an unlock that releases the lock of every entry
Unlock_All(ns) == [n \in DOMAIN nsLock |-> NoWorker]

\* unlockNamespaceInfoCache releases the lock, whoever holds it
Unlock(ns) == [nsLock EXCEPT ![ns] = NoWorker]

\* the queue of a resource kind
QueueOfKind(k) ==
    IF k = "policy" THEN routeQueue
    ELSE IF k = "namespace" THEN namespaceQueue
    ELSE podQueue

\* one queue shared by the three pools
QueueOf_Shared(w) == routeQueue

\* the queue a worker serves
QueueOf(w) ==
    IF w[1] = "policy" THEN routeQueue
    ELSE IF w[1] = "namespace" THEN namespaceQueue
    ELSE podQueue

CanFail == faults < MaxFaults

\* a retry decision that allows one retry too many
RetryItem_OffByOne(q, it, err) ==
    err # "" /\ NumRequeues(q, it) <= maxRetries

\* a retry decision that ignores the requeue count
RetryItem_Always(q, it, err) == err # ""

\* the retry decision of the three workers
RetryItem(q, it, err) == err # "" /\ NumRequeues(q, it) < maxRetries

\* a worker that also forgets the item it has just re-added
Finished_ForgetOnRetry(q, it, err) ==
    QDone(QForget(IF RetryItem(q, it, err) THEN QAddRateLimited(q, it)
                  ELSE q, it), it)

\* processNext*WorkItem after the sync returned: requeue or forget, then Done
Finished(q, it, err) ==
    QDone(IF RetryItem(q, it, err) THEN QAddRateLimited(q, it)
          ELSE QForget(q, it), it)

Goto(w, pc) == [wk EXCEPT ![w].pc = pc]
Return(w, path, err) == [wk EXCEPT ![w].pc = "done", ![w].path = path,
                                   ![w].err = err]

\* ---------------------------------------------------- namespace worker
\* a delete dispatch that ignores the lister's NotFound
NsIsDelete_TerminatingOnly(listed, namespace) == namespace.del

\* syncNamespace takes the delete path when the lister does not find the
\* namespace or the queued object carries a deletion timestamp
NsIsDelete(listed, namespace) == listed = {} \/ namespace.del

\* a sync that has no early return for an irrelevant namespace
NsIrrelevant_Never(found, matches) == FALSE

\* nothing to do: not cached and not a target of any policy
NsIrrelevant(found, matches) == ~found /\ matches = {}

\* syncNamespace without the tombstone check
NsTombstoned_Unchecked(found, info) == FALSE

\* the entry is a tombstone
NsTombstoned(found, info) == found /\ info.markForDelete

\* syncNamespace reconciling a found entry only when a policy was added
NsNeedsUpdate_GrowOnly(info, matches) == ~(matches \subseteq info.Policies)

\* syncNamespace reconciling a found entry on every run
NsNeedsUpdate_Always(info, matches) == TRUE

\* syncNamespace never reconciling a found entry
NsNeedsUpdate_Never(info, matches) == FALSE

\* the cached policies differ from the matches
NsNeedsUpdate(info, matches) == info.Policies # matches

\* the path one run of syncNamespace takes for a namespace object, from the
\* listings and the cache as they are
NsSyncPath(namespace) ==
    LET name == namespace.name
        found == name \in DOMAIN namespaceInfoCache
        matches == getPoliciesForNamespace(name)
    IN  IF NsIsDelete(Listed(namespaceLister, name), namespace) THEN "delete"
        ELSE IF NsIrrelevant(found, matches) THEN "noop"
        ELSE IF NsTombstoned(found, IF found THEN namespaceInfoCache[name]
                                    ELSE NewNamespaceInfo)
        THEN "tombstone"
        ELSE IF ~found THEN "add"
        ELSE IF NsNeedsUpdate(namespaceInfoCache[name], matches) THEN "update"
        ELSE "nochange"

\* the unlock called at the statement instead of deferred to the return
DeferredUnlock_Immediate == FALSE

\* unlockNamespaceInfoCache is deferred: it runs when syncNamespace returns
DeferredUnlock == TRUE

AtDefer(name) == IF DeferredUnlock THEN nsLock ELSE Unlock(name)
\* a return that leaves the entry locked
AtReturn_NoUnlock(name) == nsLock

AtReturn(name) == IF DeferredUnlock THEN Unlock(name) ELSE nsLock

\* processNextNamespaceWorkItem: Get, then syncNamespace up to the matches
NsDequeue(w) ==
    /\ w[1] = "namespace"
    /\ wk[w].pc = "idle"
    /\ namespaceQueue.queue # << >>
    /\ LET it == Head(namespaceQueue.queue)
           me == [IdleWorker EXCEPT !.item = << it >>]
       IN  /\ namespaceQueue' = QGet(namespaceQueue)
           /\ \/ /\ CanFail
                 /\ faults' = faults + 1
                 /\ wk' = [wk EXCEPT ![w] = [me EXCEPT !.pc = "done",
                              !.path = "error", !.err = "lister"]]
              \/ /\ faults' = faults
                 /\ wk' = [wk EXCEPT ![w] =
                      IF NsIsDelete(Listed(namespaceLister, it.name), it)
                      THEN [me EXCEPT !.pc = "delete", !.path = "delete"]
                      ELSE [me EXCEPT !.pc = "lookup",
                              !.matches = getPoliciesForNamespace(it.name)]]
    /\ UNCHANGED << listers, routeQueue, podQueue, manager >>
    /\ UNCHANGED << run, notified >>
    /\ resolved' = Watched

\* getNamespaceInfoFromCache (locks the entry when found), the early return
\* and the deferral of the unlock
NsLookup(w) ==
    /\ w[1] = "namespace"
    /\ wk[w].pc = "lookup"
    /\ LET name == Item(w).name
           found == name \in DOMAIN namespaceInfoCache
       IN  IF found
           THEN /\ Free(name)
                /\ nsLock' = IF DeferredUnlock THEN Lock(w, name) ELSE nsLock
                /\ wk' = Goto(w, "locked")
           ELSE IF NsIrrelevant(found, wk[w].matches)
           THEN /\ nsLock' = nsLock
                /\ wk' = Return(w, "noop", "")
           ELSE /\ nsLock' = AtDefer(name)
                /\ wk' = Goto(w, "create")
    /\ UNCHANGED << listers, queues, namespaceInfoCache, routePolicyCache,
                    faults >>
    /\ UNCHANGED << run, notified >>
    /\ resolved' = Watched

\* the found branch: tombstone check, update or no change, then the unlock
NsLocked(w) ==
    /\ w[1] = "namespace"
    /\ wk[w].pc = "locked"
    /\ LET name == Item(w).name
           info == namespaceInfoCache[name]
       IN  /\ nsLock' = AtReturn(name)
           /\ IF NsTombstoned(TRUE, info)
              THEN /\ wk' = Return(w, "tombstone", "deleting")
                   /\ UNCHANGED << namespaceInfoCache, faults >>
              ELSE IF NsNeedsUpdate(info, wk[w].matches)
              THEN \/ /\ namespaceInfoCache' = MapPut(namespaceInfoCache, name,
                                         Resolve(info, wk[w].matches, {}))
                      /\ wk' = Return(w, "update", "")
                      /\ faults' = faults
                   \/ /\ CanFail
                      /\ faults' = faults + 1
                      /\ wk' = Return(w, "update", "apply")
                      /\ UNCHANGED namespaceInfoCache
              ELSE /\ wk' = Return(w, "nochange", "")
                   /\ UNCHANGED << namespaceInfoCache, faults >>
    /\ UNCHANGED << listers, queues, routePolicyCache >>
    /\ UNCHANGED << run, notified >>
    /\ resolved' = Watched

\* newNamespaceInfoInCache: lock the entry, creating it when missing
NsCreate(w) ==
    /\ w[1] = "namespace"
    /\ wk[w].pc = "create"
    /\ LET name == Item(w).name
       IN  /\ Free(name)
           /\ nsLock' = Lock(w, name)
           /\ namespaceInfoCache' =
                IF name \in DOMAIN namespaceInfoCache THEN namespaceInfoCache
                ELSE MapPut(namespaceInfoCache, name, NewNamespaceInfo)
    /\ wk' = Goto(w, "add")
    /\ UNCHANGED << listers, queues, routePolicyCache, faults >>
    /\ UNCHANGED << run, notified >>
    /\ resolved' = Watched

\* an Add path that leaves the Policies of the new entry unset
AddedInfo_Unset(info, matches) == info

\* the Add path's assignment cacheInfo.Policies = matches
AddedInfo(info, matches) == [info EXCEPT !.Policies = matches]

\* cacheInfo.Policies = matches; processAddNamespace; the unlock
NsAdd(w) ==
    /\ w[1] = "namespace"
    /\ wk[w].pc = "add"
    /\ LET name == Item(w).name
           info == AddedInfo(namespaceInfoCache[name], wk[w].matches)
       IN  /\ nsLock' = AtReturn(name)
           /\ \/ /\ namespaceInfoCache' = MapPut(namespaceInfoCache, name,
                                    Resolve(info, info.Policies, {}))
                 /\ wk' = Return(w, "add", "")
                 /\ faults' = faults
              \/ /\ CanFail
                 /\ faults' = faults + 1
                 /\ namespaceInfoCache' = MapPut(namespaceInfoCache, name, info)
                 /\ wk' = Return(w, "add", "apply")
    /\ UNCHANGED << listers, queues, routePolicyCache >>
    /\ UNCHANGED << run, notified >>
    /\ resolved' = Watched

\* processDeleteNamespace: lock the entry and mark it for delete
NsDelete(w) ==
    /\ w[1] = "namespace"
    /\ wk[w].pc = "delete"
    /\ LET name == Item(w).name
       IN  IF name \notin DOMAIN namespaceInfoCache
           THEN /\ wk' = Return(w, "delete", "")
                /\ UNCHANGED << namespaceInfoCache, nsLock >>
           ELSE /\ Free(name)
                /\ nsLock' = Lock(w, name)
                /\ namespaceInfoCache' =
                     [namespaceInfoCache EXCEPT ![name].markForDelete = TRUE]
                /\ wk' = Goto(w, "teardown")
    /\ UNCHANGED << listers, queues, routePolicyCache, faults >>
    /\ UNCHANGED << run, notified >>
    /\ resolved' = Watched

\* processDeleteNamespace: withdraw the routes, then remove the map entry;
\* a failed teardown leaves the tombstone for the retry
NsTeardown(w) ==
    /\ w[1] = "namespace"
    /\ wk[w].pc = "teardown"
    /\ LET name == Item(w).name
       IN  /\ nsLock' = Unlock(name)
           /\ \/ /\ namespaceInfoCache' = MapDel(namespaceInfoCache, name)
                 /\ wk' = Return(w, "delete", "")
                 /\ faults' = faults
              \/ /\ CanFail
                 /\ faults' = faults + 1
                 /\ wk' = Return(w, "delete", "teardown")
                 /\ UNCHANGED namespaceInfoCache
    /\ UNCHANGED << listers, queues, routePolicyCache >>
    /\ UNCHANGED << run, notified >>
    /\ resolved' = Watched

\* processNextNamespaceWorkItem after syncNamespace returned
NsFinish(w) ==
    /\ w[1] = "namespace"
    /\ wk[w].pc = "done"
    /\ namespaceQueue' = Finished(namespaceQueue, Item(w), wk[w].err)
    /\ wk' = [wk EXCEPT ![w] = IdleWorker]
    /\ UNCHANGED << listers, routeQueue, podQueue, manager, faults >>
    /\ UNCHANGED << run, notified >>
    /\ resolved' = Watched

\* the backoff of a requeued namespace elapses
NsTimer(it) ==
    /\ it \in namespaceQueue.waiting
    /\ namespaceQueue' = QTimer(namespaceQueue, it)
    /\ UNCHANGED << listers, routeQueue, podQueue, manager, wk, faults >>
    /\ UNCHANGED << run, notified >>
    /\ resolved' = Watched

\* --------------------------------------------------------- policy worker
\* syncRoutePolicy without the markedForDeletion check
PolicyPath_NoSkip(listed, found, marked) ==
    IF listed = {} THEN "delete"
    ELSE IF ~found THEN "add"
    ELSE "update"

\* syncRoutePolicy testing found before markedForDeletion
PolicyPath_FoundFirst(listed, found, marked) ==
    IF listed = {} THEN "delete"
    ELSE IF ~found THEN "add"
    ELSE IF marked THEN "skip"
    ELSE "update"

\* syncRoutePolicy deleting only what the cache holds
PolicyPath_CachedOnly(listed, found, marked) ==
    IF listed = {} THEN (IF found THEN "delete" ELSE "skip")
    ELSE IF marked THEN "skip"
    ELSE IF ~found THEN "add"
    ELSE "update"

\* an update that takes the listed policy as the old value
currentPolicy_Listed(name) == TheListed(routeLister, name)

\* getRoutePolicyFromCache: the policy as the cache holds it, which the
\* update path hands to processUpdatePolicy as the old value
currentPolicy(name) == routePolicyCache[name]

\* the path syncRoutePolicy takes
PolicyPath(listed, found, marked) ==
    IF listed = {} THEN "delete"
    ELSE IF marked THEN "skip"
    ELSE IF ~found THEN "add"
    ELSE "update"

\* processNextPolicyWorkItem: Get, then syncRoutePolicy up to the manager call
PolDequeue(w) ==
    /\ w[1] = "policy"
    /\ wk[w].pc = "idle"
    /\ routeQueue.queue # << >>
    /\ LET it == Head(routeQueue.queue)
           me == [IdleWorker EXCEPT !.item = << it >>]
           path == PolicyPath(Listed(routeLister, it.name),
                              PolicyFound(it.name),
                              PolicyMarkedForDeletion(it.name))
           todo == PolicyTargets(path, it)
           call == IF path = "update"
                   THEN [me EXCEPT !.old = << currentPolicy(it.name) >>]
                   ELSE me
       IN  /\ routeQueue' = QGet(routeQueue)
           /\ \/ /\ CanFail
                 /\ faults' = faults + 1
                 /\ wk' = [wk EXCEPT ![w] = [me EXCEPT !.pc = "done",
                              !.path = "error", !.err = "lister"]]
                 /\ UNCHANGED routePolicyCache
              \/ /\ faults' = faults
                 /\ IF path = "skip"
                    THEN /\ wk' = [wk EXCEPT ![w] =
                                [me EXCEPT !.pc = "done", !.path = path]]
                         /\ UNCHANGED routePolicyCache
                    ELSE IF todo = {}
                    THEN /\ wk' = [wk EXCEPT ![w] =
                                [call EXCEPT !.pc = "done", !.path = path]]
                         /\ routePolicyCache' = PolicyCommitted(path, it)
                    ELSE /\ wk' = [wk EXCEPT ![w] =
                                [call EXCEPT !.pc = "visit", !.path = path,
                                             !.todo = todo]]
                         /\ UNCHANGED routePolicyCache
    /\ UNCHANGED << listers, namespaceQueue, podQueue, namespaceInfoCache,
                    nsLock >>
    /\ UNCHANGED << run, notified >>
    /\ resolved' = Watched

\* the manager locks the entry of the next namespace the policy touches,
\* creating it when the policy is to be added there
PolVisit(w) ==
    /\ w[1] = "policy"
    /\ wk[w].pc = "visit"
    /\ \E ns \in wk[w].todo :
         /\ Free(ns)
         /\ nsLock' = Lock(w, ns)
         /\ namespaceInfoCache' =
              IF ns \notin DOMAIN namespaceInfoCache
                 /\ wk[w].path # "delete" /\ ns \in Item(w).from
              THEN MapPut(namespaceInfoCache, ns, NewNamespaceInfo)
              ELSE namespaceInfoCache
         /\ wk' = [wk EXCEPT ![w].pc = "apply", ![w].ns = ns]
    /\ UNCHANGED << listers, queues, routePolicyCache, faults >>
    /\ UNCHANGED << run, notified >>
    /\ resolved' = Watched

\* the manager changes the locked entry and unlocks it; a tombstone is not
\* touched and fails the sync
PolApply(w) ==
    /\ w[1] = "policy"
    /\ wk[w].pc = "apply"
    /\ LET ns == wk[w].ns
           rest == wk[w].todo \ {ns}
           next == IF rest = {}
                   THEN [wk EXCEPT ![w].pc = "done", ![w].todo = {},
                                   ![w].ns = ""]
                   ELSE [wk EXCEPT ![w].pc = "visit", ![w].todo = rest,
                                   ![w].ns = ""]
           commit == IF rest = {} THEN PolicyCommitted(wk[w].path, Item(w))
                     ELSE routePolicyCache
           fail(e) == [wk EXCEPT ![w].pc = "done", ![w].todo = {},
                                 ![w].ns = "", ![w].err = e]
       IN  /\ nsLock' = Unlock(ns)
           /\ IF ns \notin DOMAIN namespaceInfoCache
              THEN /\ wk' = next
                   /\ routePolicyCache' = commit
                   /\ UNCHANGED << namespaceInfoCache, faults >>
              ELSE IF namespaceInfoCache[ns].markForDelete
              THEN /\ wk' = fail("deleting")
                   /\ UNCHANGED << namespaceInfoCache, routePolicyCache,
                                   faults >>
              ELSE \/ /\ namespaceInfoCache' = MapPut(namespaceInfoCache, ns,
                            PolicyApplied(namespaceInfoCache[ns], wk[w].path,
                                          Item(w), ns))
                      /\ wk' = next
                      /\ routePolicyCache' = commit
                      /\ faults' = faults
                   \/ /\ CanFail
                      /\ faults' = faults + 1
                      /\ wk' = fail("apply")
                      /\ UNCHANGED << namespaceInfoCache, routePolicyCache >>
    /\ UNCHANGED << listers, queues >>
    /\ UNCHANGED << run, notified >>
    /\ resolved' = Watched

\* processNextPolicyWorkItem after syncRoutePolicy returned
PolFinish(w) ==
    /\ w[1] = "policy"
    /\ wk[w].pc = "done"
    /\ routeQueue' = Finished(routeQueue, Item(w), wk[w].err)
    /\ wk' = [wk EXCEPT ![w] = IdleWorker]
    /\ UNCHANGED << listers, namespaceQueue, podQueue, manager, faults >>
    /\ UNCHANGED << run, notified >>
    /\ resolved' = Watched

PolTimer(it) ==
    /\ it \in routeQueue.waiting
    /\ routeQueue' = QTimer(routeQueue, it)
    /\ UNCHANGED << listers, namespaceQueue, podQueue, manager, wk, faults >>
    /\ UNCHANGED << run, notified >>
    /\ resolved' = Watched

\* ------------------------------------------------------------ pod worker
\* the path syncPod takes
PodPath(listed, pod, namespaces) ==
    IF listed = {} \/ pod.del
    THEN IF namespaces = {} THEN "noop" ELSE "delete"
    ELSE IF namespaces = {} THEN "add" ELSE "update"

\* processNextPodWorkItem: Get, then syncPod up to the manager call
PodDequeue(w) ==
    /\ w[1] = "pod"
    /\ wk[w].pc = "idle"
    /\ podQueue.queue # << >>
    /\ LET it == Head(podQueue.queue)
           me == [IdleWorker EXCEPT !.item = << it >>]
           namespaces == filterNamespacesUsingPodGateway(it.name)
           path == PodPath(Listed(podLister, it.name), it, namespaces)
           todo == PodTargets(path, namespaces)
       IN  /\ podQueue' = QGet(podQueue)
           /\ \/ /\ CanFail
                 /\ faults' = faults + 1
                 /\ wk' = [wk EXCEPT ![w] = [me EXCEPT !.pc = "done",
                              !.path = "error", !.err = "lister"]]
              \/ /\ faults' = faults
                 /\ wk' = [wk EXCEPT ![w] =
                      IF path = "noop" \/ todo = {}
                      THEN [me EXCEPT !.pc = "done", !.path = path]
                      ELSE [me EXCEPT !.pc = "visit", !.path = path,
                                      !.todo = todo]]
    /\ UNCHANGED << listers, namespaceQueue, routeQueue, manager >>
    /\ UNCHANGED << run, notified >>
    /\ resolved' = Watched

\* the manager locks the entry of the next namespace the pod gateways for
PodVisit(w) ==
    /\ w[1] = "pod"
    /\ wk[w].pc = "visit"
    /\ \E ns \in wk[w].todo :
         /\ Free(ns)
         /\ nsLock' = Lock(w, ns)
         /\ wk' = [wk EXCEPT ![w].pc = "apply", ![w].ns = ns]
    /\ UNCHANGED << listers, queues, namespaceInfoCache, routePolicyCache,
                    faults >>
    /\ UNCHANGED << run, notified >>
    /\ resolved' = Watched

\* the manager patches the dynamic gateways of the locked entry and unlocks
PodApply(w) ==
    /\ w[1] = "pod"
    /\ wk[w].pc = "apply"
    /\ LET ns == wk[w].ns
           rest == wk[w].todo \ {ns}
           next == IF rest = {}
                   THEN [wk EXCEPT ![w].pc = "done", ![w].todo = {},
                                   ![w].ns = ""]
                   ELSE [wk EXCEPT ![w].pc = "visit", ![w].todo = rest,
                                   ![w].ns = ""]
           fail(e) == [wk EXCEPT ![w].pc = "done", ![w].todo = {},
                                 ![w].ns = "", ![w].err = e]
       IN  /\ nsLock' = Unlock(ns)
           /\ IF ns \notin DOMAIN namespaceInfoCache
              THEN /\ wk' = next
                   /\ UNCHANGED << namespaceInfoCache, faults >>
              ELSE IF namespaceInfoCache[ns].markForDelete
              THEN /\ wk' = fail("deleting")
                   /\ UNCHANGED << namespaceInfoCache, faults >>
              ELSE \/ /\ namespaceInfoCache' = MapPut(namespaceInfoCache, ns,
                            PodApplied(namespaceInfoCache[ns], wk[w].path,
                                       Item(w)))
                      /\ wk' = next
                      /\ faults' = faults
                   \/ /\ CanFail
                      /\ faults' = faults + 1
                      /\ wk' = fail("apply")
                      /\ UNCHANGED namespaceInfoCache
    /\ UNCHANGED << listers, queues, routePolicyCache >>
    /\ UNCHANGED << run, notified >>
    /\ resolved' = Watched

\* processNextPodWorkItem after syncPod returned
PodFinish(w) ==
    /\ w[1] = "pod"
    /\ wk[w].pc = "done"
    /\ podQueue' = Finished(podQueue, Item(w), wk[w].err)
    /\ wk' = [wk EXCEPT ![w] = IdleWorker]
    /\ UNCHANGED << listers, namespaceQueue, routeQueue, manager, faults >>
    /\ UNCHANGED << run, notified >>
    /\ resolved' = Watched

PodTimer(it) ==
    /\ it \in podQueue.waiting
    /\ podQueue' = QTimer(podQueue, it)
    /\ UNCHANGED << listers, namespaceQueue, routeQueue, manager, wk, faults >>
    /\ UNCHANGED << run, notified >>
    /\ resolved' = Watched

\* ------------------------------------------------- policy notifications
\* What the policy informer can hand to a handler: any generation of the
\* policy, with or without deletion timestamp, as an object or inside a
\* tombstone, and the malformed payloads the handlers guard against.
NotifiedPolicies ==
    { PolicyObj(p, g, d, CHOOSE s \in PolicySpecs : ~s.dyn) :
         p \in Policies, g \in 1..MaxGeneration, d \in BOOLEAN }

TypedPayloads == { Typed(o) : o \in NotifiedPolicies }

PolicyPayloads ==
    TypedPayloads \cup { Tombstone(o) : o \in NotifiedPolicies }
       \cup { NilPayload, OtherPayload, TombstoneNil, TombstoneOther }

NoNotification == [kind |-> "none"]

Notification(kind, oldPl, newPl) ==
    [kind |-> kind, old |-> oldPl, new |-> newPl, before |-> routeQueue,
     reported |-> Reports(kind, oldPl, newPl)]

\* onPolicyAdd(obj)
PolicyAddNotified(pl) ==
    /\ routeQueue' = onAdd(routeQueue, pl)
    /\ notified' = Notification("add", pl, pl)
    /\ UNCHANGED << listers, namespaceQueue, podQueue, manager, wk, faults,
                    run, resolved >>

\* onPolicyUpdate(oldObj, newObj)
PolicyUpdateNotified(oldPl, newPl) ==
    /\ routeQueue' = onUpdate(routeQueue, oldPl, newPl)
    /\ notified' = Notification("update", oldPl, newPl)
    /\ UNCHANGED << listers, namespaceQueue, podQueue, manager, wk, faults,
                    run, resolved >>

\* onPolicyDelete(obj)
PolicyDeleteNotified(pl) ==
    /\ routeQueue' = onDelete(routeQueue, pl)
    /\ notified' = Notification("delete", pl, pl)
    /\ UNCHANGED << listers, namespaceQueue, podQueue, manager, wk, faults,
                    run, resolved >>

\* ---------------------------------------------- namespace notifications
\* What the namespace informer can hand to a handler.
NotifiedNamespaces ==
    { NamespaceObj(n, v, d) :
         n \in Namespaces, v \in 1..MaxVersion, d \in BOOLEAN }

TypedNamespaces == { Typed(o) : o \in NotifiedNamespaces }

NamespacePayloads ==
    TypedNamespaces \cup { Tombstone(o) : o \in NotifiedNamespaces }
       \cup { NilPayload, OtherPayload, TombstoneNil, TombstoneOther }

NamespaceNotification(kind, oldPl, newPl) ==
    [kind |-> kind, old |-> oldPl, new |-> newPl, before |-> namespaceQueue,
     reported |-> Reports(kind, oldPl, newPl)]

\* onNamespaceAdd(obj)
NamespaceAddNotified(pl) ==
    /\ namespaceQueue' = onAdd(namespaceQueue, pl)
    /\ notified' = NamespaceNotification("nsAdd", pl, pl)
    /\ UNCHANGED << listers, routeQueue, podQueue, manager, wk, faults,
                    run, resolved >>

\* onNamespaceUpdate(oldObj, newObj)
NamespaceUpdateNotified(oldPl, newPl) ==
    /\ namespaceQueue' = onUpdate(namespaceQueue, oldPl, newPl)
    /\ notified' = NamespaceNotification("nsUpdate", oldPl, newPl)
    /\ UNCHANGED << listers, routeQueue, podQueue, manager, wk, faults,
                    run, resolved >>

\* onNamespaceDelete(obj)
NamespaceDeleteNotified(pl) ==
    /\ namespaceQueue' = onDelete(namespaceQueue, pl)
    /\ notified' = NamespaceNotification("nsDelete", pl, pl)
    /\ UNCHANGED << listers, routeQueue, podQueue, manager, wk, faults,
                    run, resolved >>

\* ---------------------------------------------------- pod notifications
\* What the pod informer can hand to a handler: a pod with or without
\* assigned IP, labels, network-status annotation and deletion timestamp.
NotifiedPods ==
    { [name |-> p, id |-> 1, del |-> d, ip |-> ip, labels |-> l, net |-> n] :
         p \in Pods, d \in BOOLEAN, ip \in {"", "192.168.1.9"},
         l \in {{}, GatewayLabels}, n \in {"", "net1"} }

TypedPods == { Typed(o) : o \in NotifiedPods }

\* to onPodAdd and onPodUpdate a tombstone is a value of another type
PodPayloads == TypedPods \cup { NilPayload, OtherPayload }

PodDeletePayloads ==
    PodPayloads \cup { Tombstone(o) : o \in NotifiedPods }
       \cup { TombstoneNil, TombstoneOther }

PodNotification(kind, oldPl, newPl) ==
    [kind |-> kind, old |-> oldPl, new |-> newPl, before |-> podQueue,
     reported |-> Reports(kind, oldPl, newPl)]

\* onPodAdd(obj)
PodAddNotified(pl) ==
    /\ Len(podQueue.queue) < MaxQueued
    /\ podQueue' = onPodAdd(podQueue, pl)
    /\ notified' = PodNotification("podAdd", pl, pl)
    /\ UNCHANGED << listers, namespaceQueue, routeQueue, manager, wk, faults,
                    run, resolved >>

\* onPodUpdate(oldObj, newObj)
PodUpdateNotified(oldPl, newPl) ==
    /\ Len(podQueue.queue) < MaxQueued
    /\ podQueue' = onPodUpdate(podQueue, oldPl, newPl)
    /\ notified' = PodNotification("podUpdate", oldPl, newPl)
    /\ UNCHANGED << listers, namespaceQueue, routeQueue, manager, wk, faults,
                    run, resolved >>

\* onPodDelete(obj)
PodDeleteNotified(pl) ==
    /\ Len(podQueue.queue) < MaxQueued
    /\ podQueue' = onDelete(podQueue, pl)
    /\ notified' = PodNotification("podDelete", pl, pl)
    /\ UNCHANGED << listers, namespaceQueue, routeQueue, manager, wk, faults,
                    run, resolved >>

\* ---------------------------------------------------------- resolve API
\* What a lookup of the manager gives back: a set of IPs and an error ("" is
\* nil).  A failing lookup may hand back any set along with its error.
ResolveIPs == {"172.18.0.2", "172.18.0.3", "10.244.1.5"}
LookupErrors == {"", "not found", "internal"}
LookupResults == [ips : SUBSET ResolveIPs, err : LookupErrors]

\* no call of the resolve API has been made
NoCall == [made |-> FALSE]

\* a returned set: set holds the set, or nothing when nil is returned
Returned(calls, set, err) == [calls |-> calls, set |-> set, err |-> err]

\* a resolve that keeps only the IPs both lookups gave
GetAdminPolicyBasedExternalRouteIPsForTargetNamespace_Common(dyn, sta) ==
    IF dyn.err # "" THEN Returned(<< "dynamic" >>, {}, dyn.err)
    ELSE IF sta.err # "" THEN Returned(<< "dynamic", "static" >>, {}, sta.err)
    ELSE Returned(<< "dynamic", "static" >>, {dyn.ips \cap sta.ips}, "")

\* dyn is what getDynamicGatewayIPsForTargetNamespace gives, sta what
\* getStaticGatewayIPsForTargetNamespace gives when it is called
GetAdminPolicyBasedExternalRouteIPsForTargetNamespace(dyn, sta) ==
    IF dyn.err # "" THEN Returned(<< "dynamic" >>, {}, dyn.err)
    ELSE IF sta.err # "" THEN Returned(<< "dynamic", "static" >>, {}, sta.err)
    ELSE Returned(<< "dynamic", "static" >>, {dyn.ips \cup sta.ips}, "")

\* a collaborator calls the resolve API
ResolveCall(dyn, sta) ==
    /\ resolved' =
         [made |-> TRUE, dyn |-> dyn, sta |-> sta,
          out |-> GetAdminPolicyBasedExternalRouteIPsForTargetNamespace(dyn, sta)]
    /\ UNCHANGED << listers, queues, manager, wk, faults, run, notified >>

\* the first lookup of a call for namespace ns, made against the cache:
\* getDynamicGatewayIPsForTargetNamespace reads the entry under its lock
ResolveDynamic(ns) ==
    /\ resolved = NoCall
    /\ Free(ns)
    /\ LET e == EntrySnapshot(namespaceInfoCache, ns)
       IN  resolved' = [made |-> FALSE, ns |-> ns,
                        dyn |-> [ips |-> e.dynamic, err |-> ""],
                        seen |-> {e}]
    /\ UNCHANGED << listers, queues, manager, wk, faults, run, notified >>

\* the second lookup of that call, getStaticGatewayIPsForTargetNamespace,
\* and the return
ResolveStatic ==
    /\ "seen" \in DOMAIN resolved
    /\ ~resolved.made
    /\ Free(resolved.ns)
    /\ LET e == EntrySnapshot(namespaceInfoCache, resolved.ns)
           sta == [ips |-> e.static, err |-> ""]
       IN  resolved' =
             [made |-> TRUE, ns |-> resolved.ns, dyn |-> resolved.dyn,
              sta |-> sta, seen |-> resolved.seen,
              out |-> GetAdminPolicyBasedExternalRouteIPsForTargetNamespace(
                         resolved.dyn, sta)]
    /\ UNCHANGED << listers, queues, manager, wk, faults, run, notified >>

\* -------------------------------------------------------------- shutdown
\* ShutDown of a rate-limiting queue: no item is accepted any more and the
\* loop that delivers the delayed re-adds ends, so those are abandoned.
\* Items already in the queue stay and Get still returns them.
ShutDown(q) == [q EXCEPT !.shuttingDown = TRUE, !.waiting = {}]

\* Run is told to stop and shuts the pod queue down
StopPod ==
    /\ run = "serving"
    /\ podQueue' = ShutDown(podQueue)
    /\ run' = "podDown"
    /\ UNCHANGED << listers, namespaceQueue, routeQueue, manager, wk, faults >>
    /\ UNCHANGED << resolved, notified >>

StopRoute ==
    /\ run = "podDown"
    /\ routeQueue' = ShutDown(routeQueue)
    /\ run' = "routeDown"
    /\ UNCHANGED << listers, namespaceQueue, podQueue, manager, wk, faults >>
    /\ UNCHANGED << resolved, notified >>

StopNamespace ==
    /\ run = "routeDown"
    /\ namespaceQueue' = ShutDown(namespaceQueue)
    /\ run' = "waiting"
    /\ UNCHANGED << listers, routeQueue, podQueue, manager, wk, faults >>
    /\ UNCHANGED << resolved, notified >>

\* a worker that ends when its sync returned an error
WorkerExit_OnError(w) ==
    /\ wk[w].pc = "done"
    /\ wk[w].err # ""
    /\ wk' = [wk EXCEPT ![w].pc = "exited"]
    /\ UNCHANGED << listers, queues, manager, faults, run, resolved,
                    notified >>

\* Get reports shutdown: the queue is shut down and empty.  processNext*
\* returns false, the worker loop and then the goroutine end.
WorkerExit(w) ==
    /\ wk[w].pc = "idle"
    /\ QueueOf(w).shuttingDown
    /\ QueueOf(w).queue = << >>
    /\ wk' = [wk EXCEPT ![w].pc = "exited"]
    /\ UNCHANGED << listers, queues, manager, faults, run, resolved,
                    notified >>

\* a Run that does not wait for its workers
WaitGroupZero_NoWait == TRUE

\* the wait group of Run: every worker goroutine has ended
WaitGroupZero == \A w \in Workers : wk[w].pc = "exited"

\* wg.Wait returns and Run returns
RunReturn ==
    /\ run = "waiting"
    /\ WaitGroupZero
    /\ run' = "returned"
    /\ UNCHANGED << listers, queues, manager, wk, faults >>
    /\ UNCHANGED << resolved, notified >>

\* --------------------------------------------------------------- startup
\* Run waits for the namespace, the pod and the policy informer cache in
\* turn, then starts the workers
StartPhases == {"waitNamespaces", "waitPods", "waitRoutes"}
FailedPhases == {"namespacesFailed", "podsFailed", "routesFailed"}

\* a Run that starts its workers although a cache did not sync
AfterWait_StartAnyway(phase, ok) ==
    IF ~ok THEN "serving"
    ELSE IF phase = "waitNamespaces" THEN "waitPods"
    ELSE IF phase = "waitPods" THEN "waitRoutes"
    ELSE "serving"

\* where Run is after WaitForNamedCacheSync has returned ok: at the next
\* wait, at the start of the workers, or returned after a failed wait
AfterWait(phase, ok) ==
    IF phase = "waitNamespaces"
    THEN IF ok THEN "waitPods" ELSE "namespacesFailed"
    ELSE IF phase = "waitPods"
    THEN IF ok THEN "waitRoutes" ELSE "podsFailed"
    ELSE IF ok THEN "serving" ELSE "routesFailed"

\* one WaitForNamedCacheSync of Run returns
CacheSyncWait(ok) ==
    /\ run \in StartPhases
    /\ run' = AfterWait(run, ok)
    /\ UNCHANGED << listers, queues, manager, wk, faults, resolved,
                    notified >>

\* the worker goroutines exist once Run has passed the three waits
WorkersStarted == run \notin StartPhases \cup FailedPhases

\* ------------------------------------------------------- specification
Init ==
    /\ namespaceLister = {}
    /\ routeLister = {}
    /\ podLister = {}
    /\ lastId = [n \in Namespaces \cup Policies \cup Pods |-> 0]
    /\ namespaceQueue = EmptyQueue
    /\ routeQueue = EmptyQueue
    /\ podQueue = EmptyQueue
    /\ namespaceInfoCache = << >>
    /\ nsLock = [n \in Namespaces |-> NoWorker]
    /\ routePolicyCache = << >>
    /\ wk = [w \in Workers |-> IdleWorker]
    /\ faults = 0
    /\ eventsLeft = MaxEvents
    /\ run = "serving"
    /\ resolved = NoCall
    /\ notified = NoNotification

NamespaceEvent ==
    \E n \in Namespaces :
        \/ NamespaceAdded(n)
        \/ \E d \in BOOLEAN : NamespaceUpdated(n, d)
        \/ NamespaceDeleted(n)

PolicyEvent ==
    \E p \in Policies :
        \/ \E s \in PolicySpecs : RoutePolicyAdded(p, s)
        \/ \E s \in PolicySpecs : RoutePolicyUpdated(p, s)
        \/ RoutePolicyDeleted(p)

PodEvent ==
    \E p \in Pods :
        \/ \E ip \in PodIPs : PodAdded(p, ip)
        \/ \E ip \in PodIPs, d \in BOOLEAN : PodUpdated(p, ip, d)
        \/ PodDeleted(p)

NamespaceWorker ==
    \/ \E w \in Workers :
          \/ NsDequeue(w) \/ NsLookup(w) \/ NsLocked(w) \/ NsCreate(w)
          \/ NsAdd(w) \/ NsDelete(w) \/ NsTeardown(w) \/ NsFinish(w)
    \/ \E it \in namespaceQueue.waiting : NsTimer(it)

PolicyWorker ==
    \/ \E w \in Workers :
          PolDequeue(w) \/ PolVisit(w) \/ PolApply(w) \/ PolFinish(w)
    \/ \E it \in routeQueue.waiting : PolTimer(it)

PodWorker ==
    \/ \E w \in Workers :
          PodDequeue(w) \/ PodVisit(w) \/ PodApply(w) \/ PodFinish(w)
    \/ \E it \in podQueue.waiting : PodTimer(it)

Next ==
    \/ NamespaceEvent \/ PolicyEvent \/ PodEvent
    \/ NamespaceWorker \/ PolicyWorker \/ PodWorker

Spec == Init /\ [][Next]_vars

\* A run that starts after the informers' initial listing has been synced:
\* policy P1 and namespace ns1 exist, the namespace sync has created the
\* entry, and the policy sync either has run too or is still queued.
WarmInit ==
    \E s \in PolicySpecs, synced \in BOOLEAN :
        LET pol == PolicyObj("P1", 1, FALSE, s)
            ns == NamespaceObj("ns1", 1, FALSE)
        IN  /\ namespaceLister = {ns}
            /\ routeLister = {pol}
            /\ podLister = {}
            /\ lastId = [n \in Namespaces \cup Policies \cup Pods |->
                           IF n \in {"ns1", "P1"} THEN 1 ELSE 0]
            /\ namespaceQueue = EmptyQueue
            /\ routeQueue = IF synced THEN EmptyQueue
                            ELSE QAdd(EmptyQueue, pol)
            /\ podQueue = EmptyQueue
            /\ namespaceInfoCache =
                 [n \in {"ns1"} |->
                    [NewNamespaceInfo EXCEPT !.Policies = {"P1"},
                                             !.static = s.static]]
            /\ nsLock = [n \in Namespaces |-> NoWorker]
            /\ routePolicyCache = IF synced THEN [p \in {"P1"} |-> pol]
                                  ELSE << >>
            /\ wk = [w \in Workers |-> IdleWorker]
            /\ faults = 0
            /\ eventsLeft = MaxWarmEvents
            /\ run = "serving"
            /\ resolved = NoCall
            /\ notified = NoNotification

WarmSpec == WarmInit /\ [][Next]_vars

\* A run that starts before namespace ns1 exists: policy P1 either exists
\* and has been synced, or does not exist either.
FreshInit ==
    \E s \in PolicySpecs, withPolicy \in BOOLEAN :
        LET pol == PolicyObj("P1", 1, FALSE, s)
        IN  /\ namespaceLister = {}
            /\ routeLister = IF withPolicy THEN {pol} ELSE {}
            /\ podLister = {}
            /\ lastId = [n \in Namespaces \cup Policies \cup Pods |->
                           IF withPolicy /\ n = "P1" THEN 1 ELSE 0]
            /\ namespaceQueue = EmptyQueue
            /\ routeQueue = EmptyQueue
            /\ podQueue = EmptyQueue
            /\ namespaceInfoCache = << >>
            /\ nsLock = [n \in Namespaces |-> NoWorker]
            /\ routePolicyCache = IF withPolicy THEN [p \in {"P1"} |-> pol]
                                  ELSE << >>
            /\ wk = [w \in Workers |-> IdleWorker]
            /\ faults = 0
            /\ eventsLeft = MaxWarmEvents
            /\ run = "serving"
            /\ resolved = NoCall
            /\ notified = NoNotification

FreshSpec == FreshInit /\ [][Next]_vars

\* Run from its first statement: the informers deliver their notifications
\* from the start, the workers run once they are started
StartInit ==
    /\ namespaceLister = {}
    /\ routeLister = {}
    /\ podLister = {}
    /\ lastId = [n \in Namespaces \cup Policies \cup Pods |-> 0]
    /\ namespaceQueue = EmptyQueue
    /\ routeQueue = EmptyQueue
    /\ podQueue = EmptyQueue
    /\ namespaceInfoCache = << >>
    /\ nsLock = [n \in Namespaces |-> NoWorker]
    /\ routePolicyCache = << >>
    /\ wk = [w \in Workers |-> IdleWorker]
    /\ faults = 0
    /\ eventsLeft = MaxWarmEvents
    /\ run = "waitNamespaces"
    /\ resolved = NoCall
    /\ notified = NoNotification

StartNext ==
    \/ \E ok \in BOOLEAN : CacheSyncWait(ok)
    \/ NamespaceEvent \/ PolicyEvent \/ PodEvent
    \/ (WorkersStarted /\ NamespaceWorker)
    \/ (WorkersStarted /\ PolicyWorker)
    \/ (WorkersStarted /\ PodWorker)

StartSpec == StartInit /\ [][StartNext]_vars

\* A run in which a collaborator calls the resolve API for ns1 while the
\* controller works: at the start policy P1, with a static hop and a dynamic
\* gateway spec, namespace ns1 and the gateway pod gw1 are listed, and the
\* entry of ns1 holds P1 with both kinds of gateway IPs.
SnapshotInit ==
    LET pol == PolicyObj("P1", 1, FALSE,
                   [from |-> {"ns1"}, static |-> {"10.0.0.6"}, dyn |-> TRUE])
        ns == NamespaceObj("ns1", 1, FALSE)
        gw == PodObj("gw1", 1, FALSE, "192.168.1.9")
    IN  /\ namespaceLister = {ns}
        /\ routeLister = {pol}
        /\ podLister = {gw}
        /\ lastId = [n \in Namespaces \cup Policies \cup Pods |-> 1]
        /\ namespaceQueue = EmptyQueue
        /\ routeQueue = EmptyQueue
        /\ podQueue = EmptyQueue
        /\ namespaceInfoCache =
              [n \in {"ns1"} |->
                 [Policies |-> {"P1"}, static |-> {"10.0.0.6"},
                  dynamic |-> { << "gw1", "192.168.1.9" >> },
                  markForDelete |-> FALSE]]
        /\ nsLock = [n \in Namespaces |-> NoWorker]
        /\ routePolicyCache = [p \in {"P1"} |-> pol]
        /\ wk = [w \in Workers |-> IdleWorker]
        /\ faults = 0
        /\ eventsLeft = MaxWarmEvents
        /\ run = "serving"
        /\ resolved = NoCall
        /\ notified = NoNotification

SnapshotNext ==
    \/ Next
    \/ \E ns \in Namespaces : ResolveDynamic(ns)
    \/ ResolveStatic

SnapshotSpec == SnapshotInit /\ [][SnapshotNext]_vars

\* A run in which only the namespace changes: the policies stay as they are
\* listed at the start, so the namespace syncs are the only writers of the
\* namespace's entry.
NamespaceNext == NamespaceEvent \/ NamespaceWorker

NamespaceSpec == FreshInit /\ [][NamespaceNext]_vars

\* A run with two namespaces, both selected by policy P1, which is listed and
\* cached; the namespaces are created, updated and deleted while the policy
\* changes.
AllNamespaces == {"ns1", "ns2"}

PairInit ==
    LET pol == PolicyObj("P1", 1, FALSE,
                   [from |-> AllNamespaces, static |-> {"10.0.0.5"},
                    dyn |-> FALSE])
    IN  /\ namespaceLister = {}
        /\ routeLister = {pol}
        /\ podLister = {}
        /\ lastId = [n \in AllNamespaces \cup Policies \cup Pods |->
                       IF n = "P1" THEN 1 ELSE 0]
        /\ namespaceQueue = EmptyQueue
        /\ routeQueue = EmptyQueue
        /\ podQueue = EmptyQueue
        /\ namespaceInfoCache = << >>
        /\ nsLock = [n \in AllNamespaces |-> NoWorker]
        /\ routePolicyCache = [p \in {"P1"} |-> pol]
        /\ wk = [w \in Workers |-> IdleWorker]
        /\ faults = 0
        /\ eventsLeft = MaxPairEvents
        /\ run = "serving"
        /\ resolved = NoCall
        /\ notified = NoNotification

PairEvent ==
    \E n \in AllNamespaces :
        \/ NamespaceAdded(n)
        \/ \E d \in BOOLEAN : NamespaceUpdated(n, d)
        \/ NamespaceDeleted(n)

PairNext ==
    \/ PairEvent \/ PolicyEvent
    \/ NamespaceWorker \/ PolicyWorker

PairSpec == PairInit /\ [][PairNext]_vars

\* the two-namespace run under fair scheduling of the worker goroutines
PairFairSpec ==
    PairInit /\ [][PairNext]_vars
    /\ WF_vars(NamespaceWorker) /\ WF_vars(PolicyWorker)

\* The same run under fair scheduling: the Go scheduler lets every runnable
\* worker goroutine run, and the delay of a rate-limited re-add elapses.
\* Nothing is assumed about the informer events.
Fairness ==
    /\ WF_vars(NamespaceWorker)
    /\ WF_vars(PolicyWorker)
    /\ WF_vars(PodWorker)

FairSpec == WarmInit /\ [][Next]_vars /\ Fairness

\* The same run with the stop signal: Run shuts the queues down, the
\* workers end and Run returns.
Stop ==
    \/ StopPod \/ StopRoute \/ StopNamespace
    \/ \E w \in Workers : WorkerExit(w)
    \/ RunReturn

StopNext == Next \/ Stop

\* What existed when the informers did their initial listing: nothing, the
\* namespace and the policy, or the gateway pod.
InitialListings ==
    { [ns |-> {}, pol |-> {}, pod |-> {}],
      [ns |-> Namespaces, pol |-> Policies, pod |-> {}],
      [ns |-> {}, pol |-> {}, pod |-> Pods] }

\* The controller right after the informers' initial listing: the add
\* notification of every listed object has been queued and no sync has run.
StopInit ==
    \E l \in InitialListings, s \in PolicySpecs, ip \in PodIPs \ {""} :
        LET nss == { NamespaceObj(n, 1, FALSE) : n \in l.ns }
            pols == { PolicyObj(p, 1, FALSE, s) : p \in l.pol }
            pods == { PodObj(p, 1, FALSE, ip) : p \in l.pod }
        IN  /\ namespaceLister = nss
            /\ routeLister = pols
            /\ podLister = pods
            /\ lastId = [n \in Namespaces \cup Policies \cup Pods |->
                           IF n \in l.ns \cup l.pol \cup l.pod THEN 1 ELSE 0]
            /\ namespaceQueue =
                 IF nss = {} THEN EmptyQueue
                 ELSE onAdd(EmptyQueue, Typed(CHOOSE o \in nss : TRUE))
            /\ routeQueue =
                 IF pols = {} THEN EmptyQueue
                 ELSE onAdd(EmptyQueue, Typed(CHOOSE o \in pols : TRUE))
            /\ podQueue =
                 IF pods = {} THEN EmptyQueue
                 ELSE onPodAdd(EmptyQueue, Typed(CHOOSE o \in pods : TRUE))
            /\ namespaceInfoCache = << >>
            /\ nsLock = [n \in Namespaces |-> NoWorker]
            /\ routePolicyCache = << >>
            /\ wk = [w \in Workers |-> IdleWorker]
            /\ faults = 0
            /\ eventsLeft = MaxStopEvents
            /\ run = "serving"
            /\ resolved = NoCall
            /\ notified = NoNotification

StopSpec == StopInit /\ [][StopNext]_vars

\* The resolve API called over and over, whatever the lookups give
ResolveNext ==
    \E dyn \in LookupResults, sta \in LookupResults : ResolveCall(dyn, sta)

ResolveSpec == Init /\ [][ResolveNext]_vars

\* The handlers of the policy informer called with every payload
AdmissionNext ==
    \/ \E pl \in PolicyPayloads : PolicyAddNotified(pl)
    \/ \E oldPl \in PolicyPayloads, newPl \in PolicyPayloads :
          PolicyUpdateNotified(oldPl, newPl)
    \/ \E pl \in PolicyPayloads : PolicyDeleteNotified(pl)

AdmissionSpec == Init /\ [][AdmissionNext]_vars

\* The handlers of the namespace informer called with every payload
NamespaceAdmissionNext ==
    \/ \E pl \in NamespacePayloads : NamespaceAddNotified(pl)
    \/ \E oldPl \in NamespacePayloads, newPl \in NamespacePayloads :
          NamespaceUpdateNotified(oldPl, newPl)
    \/ \E pl \in NamespacePayloads : NamespaceDeleteNotified(pl)

NamespaceAdmissionSpec == Init /\ [][NamespaceAdmissionNext]_vars

\* The handlers of the pod informer called with every payload
PodAdmissionNext ==
    \/ \E pl \in PodPayloads : PodAddNotified(pl)
    \/ \E oldPl \in PodPayloads, newPl \in PodPayloads :
          PodUpdateNotified(oldPl, newPl)
    \/ \E pl \in PodDeletePayloads : PodDeleteNotified(pl)

PodAdmissionSpec == Init /\ [][PodAdmissionNext]_vars

\* The three delete handlers called with every payload; each queue holds
\* up to MaxQueued objects
PlainPods == { o \in NotifiedPods : o.labels = GatewayLabels /\ o.net = "" }

DeleteNext ==
    \/ \E pl \in NamespacePayloads :
          /\ Len(namespaceQueue.queue) < MaxQueued
          /\ NamespaceDeleteNotified(pl)
    \/ \E pl \in PolicyPayloads :
          /\ Len(routeQueue.queue) < MaxQueued
          /\ PolicyDeleteNotified(pl)
    \/ \E pl \in PodDeletePayloads :
          /\ pl.obj \subseteq PlainPods
          /\ PodDeleteNotified(pl)

DeleteSpec == Init /\ [][DeleteNext]_vars

\* The run of FreshSpec, with the nine handlers also called with what is
\* not an object of their kind: an object of another kind, a nil pointer,
\* a tombstone holding either, or an untyped nil
AnyObjects ==
    { o \in NotifiedNamespaces \cup NotifiedPolicies \cup PlainPods :
         o.id = 1 /\ ~o.del /\ ("ip" \in DOMAIN o => o.ip # "") }

OwnPayloads(k) ==
    { Handed(k, o) : o \in { x \in AnyObjects : KindOfObject(x) = k } }

IllPayloads(k) ==
    LET foreign == { o \in AnyObjects : KindOfObject(o) # k }
    IN  { Handed(k, o) : o \in foreign }
           \cup { HandedTombstone(k, o) : o \in foreign }
           \cup { NilPayload, TombstoneNil, OtherPayload }

\* the handler of the informer of kind k for event ev, as a function of the
\* queue it adds to
HandlerOf(k, ev, q, oldPl, newPl) ==
    IF ev = "add"
    THEN (IF k = "pod" THEN onPodAdd(q, newPl) ELSE onAdd(q, newPl))
    ELSE IF ev = "update"
    THEN (IF k = "pod" THEN onPodUpdate(q, oldPl, newPl)
          ELSE onUpdate(q, oldPl, newPl))
    ELSE onDelete(q, newPl)

\* one call of a handler; notified keeps what kind of value it was handed
Delivered(k, ev, oldPl, newPl) ==
    /\ LET q == HandlerOf(k, ev, QueueOfKind(k), oldPl, newPl)
       IN  /\ namespaceQueue' = IF k = "namespace" THEN q ELSE namespaceQueue
           /\ routeQueue' = IF k = "policy" THEN q ELSE routeQueue
           /\ podQueue' = IF k = "pod" THEN q ELSE podQueue
    /\ notified' = [kind |-> "delivered", to |-> k,
                    shape |-> IF newPl.shape = "obj" THEN oldPl.shape
                              ELSE newPl.shape]
    /\ UNCHANGED << listers, manager, wk, faults, run >>
    /\ resolved' = Watched

TypingNext ==
    \/ Next
    \/ \E k \in Kinds :
          \E pl \in IllPayloads(k) : Delivered(k, "add", pl, pl)
    \/ \E k \in Kinds :
          \E ill \in IllPayloads(k), own \in OwnPayloads(k) :
             \/ Delivered(k, "update", ill, own)
             \/ Delivered(k, "update", own, ill)
    \/ \E k \in Kinds :
          \E pl \in IllPayloads(k) : Delivered(k, "delete", pl, pl)

TypingSpec == FreshInit /\ [][TypingNext]_vars

\* ----------------------------------------------------------- properties
NsWorkers == { w \in Workers : w[1] = "namespace" }
PolWorkers == { w \in Workers : w[1] = "policy" }
PodWorkers == { w \in Workers : w[1] = "pod" }

\* worker w is inside its read-modify-write of the entry of ns: between
\* getNamespaceInfoFromCache (found) or newNamespaceInfoInCache and the
\* unlock for a namespace sync, between the manager's lock and unlock for a
\* policy or pod sync
InEntry(w, ns) ==
    \/ /\ w[1] = "namespace"
       /\ wk[w].pc \in {"locked", "add", "teardown"}
       /\ Item(w).name = ns
    \/ /\ w[1] \in {"policy", "pod"}
       /\ wk[w].pc = "apply"
       /\ wk[w].ns = ns

\* worker w waits for, or is about to take, the entry lock of ns
AtEntry(w, ns) ==
    \/ /\ w[1] = "namespace"
       /\ wk[w].pc \in {"lookup", "create", "delete"}
       /\ Item(w).name = ns
    \/ /\ w[1] \in {"policy", "pod"}
       /\ wk[w].pc = "visit"
       /\ ns \in wk[w].todo

\* C1: mutual exclusion.  No two syncs are inside their read-modify-write of
\* the same namespace entry at the same time.
C1_MutualExclusion ==
    \A ns \in Namespaces : \A w1, w2 \in Workers :
        (InEntry(w1, ns) /\ InEntry(w2, ns)) => w1 = w2

\* a namespace sync is inside the entry while another namespace sync and a
\* policy sync both want the same entry
C1_Witness ==
    \E ns \in Namespaces : \E w1, w2 \in NsWorkers : \E w3 \in PolWorkers :
        /\ w1 # w2
        /\ InEntry(w1, ns)
        /\ wk[w1].pc = "locked"
        /\ AtEntry(w2, ns)
        /\ ns \in DOMAIN namespaceInfoCache
        /\ AtEntry(w3, ns)

\* C2: tombstone check in namespace sync.  A namespace sync that finds the
\* entry of its listed, live namespace marked for delete returns an error,
\* takes none of the add / update paths, leaves the cache as it is and
\* releases the entry lock; the worker then requeues the item with backoff
\* while retries remain.
C2_TombstoneCheck ==
    [][ \A w \in NsWorkers :
          /\ ( /\ wk[w].pc = "locked"
               /\ wk'[w].pc # "locked"
               /\ Item(w).name \in DOMAIN namespaceInfoCache
               /\ namespaceInfoCache[Item(w).name].markForDelete )
             => /\ wk'[w].pc = "done"
                /\ wk'[w].err # ""
                /\ wk'[w].path = "tombstone"
                /\ namespaceInfoCache' = namespaceInfoCache
                /\ routePolicyCache' = routePolicyCache
                /\ nsLock'[Item(w).name] = NoWorker
          /\ ( /\ wk[w].pc = "done"
               /\ wk[w].path = "tombstone"
               /\ wk'[w].pc = "idle"
               /\ NumRequeues(namespaceQueue, Item(w)) < maxRetries )
             => /\ Item(w) \in namespaceQueue'.waiting
                /\ NumRequeues(namespaceQueue', Item(w))
                     = NumRequeues(namespaceQueue, Item(w)) + 1
                /\ Item(w) \notin namespaceQueue'.processing
      ]_vars

\* a namespace sync has returned from the tombstone check with retries left
C2_Witness ==
    \E w \in NsWorkers :
        /\ wk[w].pc = "done"
        /\ wk[w].path = "tombstone"
        /\ wk[w].err = "deleting"
        /\ Listed(namespaceLister, Item(w).name) # {}
        /\ ~Item(w).del
        /\ NumRequeues(namespaceQueue, Item(w)) < maxRetries

\* a policy or pod sync returns from its dequeue step
PolicyReturnsAtDispatch(w) ==
    /\ wk[w].pc = "idle"
    /\ wk'[w].pc = "done"
    /\ wk'[w].path # "error"

\* a policy or pod sync is about to change an entry that is a tombstone
AppliesToTombstone(w) ==
    /\ wk[w].pc = "apply"
    /\ wk'[w].pc # "apply"
    /\ wk[w].ns \in DOMAIN namespaceInfoCache
    /\ namespaceInfoCache[wk[w].ns].markForDelete

\* C3 as claimed: every policy or pod sync that targets a namespace entry
\* marked for delete fails with the in-progress error and changes nothing.
C3_AlwaysInProgress ==
    [][ \A w \in PolWorkers \cup PodWorkers :
          ( \/ AppliesToTombstone(w)
            \/ /\ w \in PolWorkers
               /\ PolicyReturnsAtDispatch(w)
               /\ PolicyMarkedForDeletion(Head(routeQueue.queue).name) )
          => /\ wk'[w].err = "deleting"
             /\ namespaceInfoCache' = namespaceInfoCache
             /\ routePolicyCache' = routePolicyCache
      ]_vars

\* C3 as amended: no step of a policy or pod sync changes an entry marked
\* for delete; a pod sync and a policy sync that reach such an entry fail
\* with the in-progress error; a policy add/update sync that
\* getRoutePolicyFromCache reports as marked for deletion is skipped with
\* success.
C3_TombstoneSafety ==
    [][ \A w \in PolWorkers \cup PodWorkers :
          /\ wk'[w] # wk[w]
             => \A ns \in DOMAIN namespaceInfoCache :
                   namespaceInfoCache[ns].markForDelete
                   => /\ ns \in DOMAIN namespaceInfoCache'
                      /\ namespaceInfoCache'[ns] = namespaceInfoCache[ns]
          /\ AppliesToTombstone(w)
             => /\ wk'[w].pc = "done"
                /\ wk'[w].err = "deleting"
                /\ namespaceInfoCache' = namespaceInfoCache
                /\ routePolicyCache' = routePolicyCache
          /\ ( /\ w \in PolWorkers
               /\ PolicyReturnsAtDispatch(w)
               /\ Listed(routeLister, Head(routeQueue.queue).name) # {}
               /\ PolicyMarkedForDeletion(Head(routeQueue.queue).name) )
             => /\ wk'[w].err = ""
                /\ wk'[w].path = "skip"
                /\ namespaceInfoCache' = namespaceInfoCache
                /\ routePolicyCache' = routePolicyCache
      ]_vars

\* a pod sync has reached an entry marked for delete and failed
C3_Witness ==
    /\ \E w \in PodWorkers : wk[w].pc = "done" /\ wk[w].err = "deleting"
    /\ \E ns \in DOMAIN namespaceInfoCache : namespaceInfoCache[ns].markForDelete

\* C4: a policy add/update during deletion is skipped, not errored.  When
\* getRoutePolicyFromCache reports markedForDeletion for a listed policy,
\* syncRoutePolicy returns success without touching the cache, found or not,
\* and the worker forgets the item instead of requeuing it: the finish step
\* schedules no delayed re-add and resets the item's requeue count.
C4_SkipNotError ==
    [][ \A w \in PolWorkers :
          /\ ( /\ wk[w].pc = "idle"
               /\ wk'[w].pc # "idle"
               /\ wk'[w].path # "error"
               /\ Listed(routeLister, Head(routeQueue.queue).name) # {}
               /\ PolicyMarkedForDeletion(Head(routeQueue.queue).name) )
             => /\ wk'[w].pc = "done"
                /\ wk'[w].path = "skip"
                /\ wk'[w].err = ""
                /\ UNCHANGED manager
          /\ ( /\ wk[w].pc = "done"
               /\ wk[w].path = "skip"
               /\ wk'[w].pc = "idle" )
             => /\ routeQueue'.waiting = routeQueue.waiting
                /\ NumRequeues(routeQueue', Item(w)) = 0
                /\ Item(w) \notin routeQueue'.processing
      ]_vars

\* a policy that is not in the policy cache has been skipped
C4_Witness ==
    \E w \in PolWorkers :
        /\ wk[w].pc = "done"
        /\ wk[w].path = "skip"
        /\ ~PolicyFound(Item(w).name)
        /\ Listed(routeLister, Item(w).name) # {}

\* ------------------------------------------------------------------
\* every queue is drained and every worker is back at Get
Settled ==
    /\ \A q \in { namespaceQueue, routeQueue, podQueue } :
          q.queue = << >> /\ QItems(q) = {}
    /\ \A w \in Workers : wk[w].pc = "idle"

\* C5: no resurrection.  A namespace that is gone from the listing never
\* ends up with a live cache entry once the pending syncs have run.
C5_NoResurrection ==
    \A ns \in Namespaces :
        (Settled /\ Listed(namespaceLister, ns) = {})
        => ~(ns \in DOMAIN namespaceInfoCache
             /\ ~namespaceInfoCache[ns].markForDelete)

\* the entry a namespace has when it is evaluated from scratch
FromScratch(ns) ==
    Resolve(NewNamespaceInfo, getPoliciesForNamespace(ns), {})

\* no listed namespace or pod is terminating
NoneTerminating == \A o \in namespaceLister \cup podLister : ~o.del

\* C6: convergence.  When the events have settled without any failure (so
\* no item was dropped) and no listed object is terminating, the Policies
\* and the gateway IPs of every listed namespace equal the values computed
\* from scratch, and a namespace that is gone has no entry.
C6_Convergence ==
    (Settled /\ faults = 0 /\ NoneTerminating)
    => \A ns \in Namespaces :
          IF Listed(namespaceLister, ns) = {}
          THEN ns \notin DOMAIN namespaceInfoCache
          ELSE ~TheListed(namespaceLister, ns).del
               => IF ns \in DOMAIN namespaceInfoCache
                  THEN /\ namespaceInfoCache[ns].Policies =
                             FromScratch(ns).Policies
                       /\ GatewayIPs(namespaceInfoCache[ns]) =
                             GatewayIPs(FromScratch(ns))
                  ELSE getPoliciesForNamespace(ns) = {}

\* a worker takes an item and the lister lookup succeeds
Dispatches(w) ==
    /\ wk[w].pc = "idle"
    /\ wk'[w].pc # "idle"
    /\ wk'[w].path # "error"

\* C7: level-triggered syncs.  The path a sync takes and the object it
\* applies are those of the currently listed object, whatever the queued
\* snapshot holds.
C7_LevelTriggered ==
    [][ /\ \A w \in NsWorkers :
             LET it == Head(namespaceQueue.queue)
                 l == Listed(namespaceLister, it.name)
             IN  (Dispatches(w) /\ l # {})
                 => ((wk'[w].pc = "delete")
                       = NsIsDelete(l, TheListed(namespaceLister, it.name)))
        /\ \A w \in PodWorkers :
             LET it == Head(podQueue.queue)
                 l == Listed(podLister, it.name)
             IN  (Dispatches(w) /\ l # {})
                 => wk'[w].path =
                      PodPath(l, TheListed(podLister, it.name),
                              filterNamespacesUsingPodGateway(it.name))
        /\ \A w \in PolWorkers :
             LET it == Head(routeQueue.queue)
                 l == Listed(routeLister, it.name)
             IN  (Dispatches(w) /\ l # {}
                    /\ wk'[w].path \in {"add", "update"})
                 => LET cur == TheListed(routeLister, it.name)
                    IN  /\ it.from = cur.from
                        /\ it.static = cur.static
                        /\ it.dyn = cur.dyn
      ]_vars

\* C8: per-key serialization.  No two workers of a queue process the same
\* key at the same time.
C8_PerKeySerialization ==
    \A w1, w2 \in Workers :
        ( /\ w1 # w2
          /\ w1[1] = w2[1]
          /\ wk[w1].pc # "idle"
          /\ wk[w2].pc # "idle" )
        => Item(w1).name # Item(w2).name

\* the pending entries of a queue that carry the key
Pending(q, name) == { i \in 1..Len(q.queue) : q.queue[i].name = name }

\* C9: enqueue is idempotent per key.  Each queue holds at most one pending
\* entry per key.
C9_OnePendingPerKey ==
    /\ \A n \in Namespaces : Cardinality(Pending(namespaceQueue, n)) <= 1
    /\ \A p \in Policies : Cardinality(Pending(routeQueue, p)) <= 1
    /\ \A p \in Pods : Cardinality(Pending(podQueue, p)) <= 1

\* syncNamespace returns success from one of its live paths
NsReturnsSuccess(w) ==
    /\ wk[w].pc # "done"
    /\ wk'[w].pc = "done"
    /\ wk'[w].err = ""
    /\ wk'[w].path \in {"noop", "add", "update", "nochange"}

NsReturnsClean(w) ==
    /\ wk[w].pc # "done"
    /\ wk'[w].pc = "done"
    /\ wk'[w].err \in {"", "deleting"}
    /\ wk'[w].path \in {"noop", "add", "update", "nochange", "tombstone"}

\* C11: idempotence of namespace sync.  When a run of syncNamespace returns
\* and the listings still are what that run read, a second run for the same
\* namespace object takes a path that calls neither processAddNamespace nor
\* processUpdateNamespace and writes nothing to the cache.
C11_NsSyncIdempotent ==
    [][ \A w \in NsWorkers :
          ( /\ NsReturnsClean(w)
            /\ wk'[w].matches = getPoliciesForNamespace(wk'[w].item[1].name)
            /\ ~NsIsDelete(Listed(namespaceLister, wk'[w].item[1].name),
                           wk'[w].item[1]) )
          => (NsSyncPath(wk[w].item[1]))' \in {"noop", "nochange", "tombstone"}
      ]_vars

\* a run has added the entry and a second run would find nothing to change
C11_Witness ==
    \E w \in NsWorkers :
        /\ wk[w].pc = "done"
        /\ wk[w].path = "add"
        /\ wk[w].err = ""
        /\ wk[w].matches # {}
        /\ NsSyncPath(Item(w)) = "nochange"

\* a namespace worker owns the entry lock exactly while it is between the
\* acquisition and the return of its sync
OwnsExactly(w, ns) ==
    Holds(w, ns) <=> ( /\ wk[w].pc \in {"locked", "add", "teardown"}
                       /\ Item(w).name = ns )

\* C12: lock release on every exit path.  A namespace worker holds the entry
\* lock exactly from the acquisition to the return of syncNamespace, so every
\* return leaves it released, and a held lock changes hands only by a step
\* of the worker that holds it.
C12_LockReleased ==
    [][ /\ \A w \in NsWorkers : \A ns \in Namespaces : OwnsExactly(w, ns)'
        /\ \A ns \in Namespaces :
             (nsLock[ns] # NoWorker /\ nsLock'[ns] # nsLock[ns])
             => /\ wk'[nsLock[ns]] # wk[nsLock[ns]]
                /\ nsLock'[ns] = NoWorker
      ]_vars

\* a sync whose manager call failed has returned and the entry is unlocked
C12_Witness ==
    \E w \in NsWorkers :
        /\ wk[w].pc = "done"
        /\ wk[w].err = "apply"
        /\ Free(Item(w).name)

\* a worker finishes an item: processNext*WorkItem returns
FinishesItem(w) == wk[w].pc = "done" /\ wk'[w].pc # "done"

\* C13: retry decision.  In each of the three workers, an item whose sync
\* failed with a requeue count below maxRetries is re-added rate-limited and
\* keeps its count; one whose count reached maxRetries is dropped and
\* forgotten; one whose sync succeeded is forgotten.  In every case the
\* worker goes on to the next Get.
C13_RetryDecision ==
    [][ \A w \in Workers :
          FinishesItem(w)
          => LET it == Item(w)
                 n == NumRequeues(QueueOf(w), it)
                 q == (QueueOf(w))'
             IN  /\ wk'[w] = IdleWorker
                 /\ it \notin q.processing
                 /\ IF wk[w].err # "" /\ n < maxRetries
                    THEN /\ it \in q.waiting
                         /\ NumRequeues(q, it) = n + 1
                    ELSE /\ q.waiting = QueueOf(w).waiting
                         /\ NumRequeues(q, it) = 0
      ]_vars

\* a sync has failed for an item whose retries are exhausted
C13_Witness ==
    \E w \in PolWorkers :
        /\ wk[w].pc = "done"
        /\ wk[w].err # ""
        /\ NumRequeues(routeQueue, Item(w)) >= maxRetries

\* the item a worker is finishing was not re-added while it was processed
NotReAdded(w) ==
    /\ Item(w) \notin QueueOf(w).dirty
    /\ Item(w) \notin QueueOf(w).waiting

\* C14: no poison item retries forever.  The requeue count of an item never
\* exceeds maxRetries, so an item that fails every time is synced at most
\* maxRetries + 1 times; the failure that finds the count at maxRetries
\* removes the item from its queue altogether, unless an event re-added it
\* in the meantime.
C14_NoPoisonItem ==
    [][ /\ \A q \in { namespaceQueue', routeQueue', podQueue' } :
             \A it \in DOMAIN q.requeues : q.requeues[it] <= maxRetries
        /\ \A w \in Workers :
             ( /\ FinishesItem(w)
               /\ wk[w].err # ""
               /\ NumRequeues(QueueOf(w), Item(w)) >= maxRetries
               /\ NotReAdded(w) )
             => LET q == (QueueOf(w))'
                IN  /\ Item(w) \notin QItems(q)
                    /\ \A i \in 1..Len(q.queue) : q.queue[i] # Item(w)
                    /\ Item(w) \notin DOMAIN q.requeues
      ]_vars

\* a namespace item fails with its retries exhausted and no re-add pending
C14_Witness ==
    \E w \in NsWorkers :
        /\ wk[w].pc = "done"
        /\ wk[w].err # ""
        /\ NumRequeues(namespaceQueue, Item(w)) = maxRetries
        /\ NotReAdded(w)

\* ------------------------------------------------------------- shutdown
MidSync(w) == wk[w].pc \notin {"idle", "exited"}

AllQueues == << namespaceQueue, routeQueue, podQueue >>

\* C15: when Run has returned, all three queues are shut down, every worker
\* goroutine has exited, no worker is between a dequeue and its Done (no
\* item is in processing) and no namespace entry is left locked.
C15_GracefulShutdown ==
    run = "returned" =>
        /\ \A i \in 1..3 : /\ AllQueues[i].shuttingDown
                           /\ AllQueues[i].processing = {}
        /\ \A w \in Workers : wk[w].pc = "exited"
        /\ \A n \in Namespaces : nsLock[n] = NoWorker

\* Run has returned after the workers synced the policy and the namespace
\* that were queued when they started
C15_Witness ==
    /\ run = "returned"
    /\ "P1" \in DOMAIN routePolicyCache
    /\ "ns1" \in DOMAIN namespaceInfoCache

\* Get has handed an item to worker w
Dequeues(w) == wk[w].pc = "idle" /\ wk'[w].pc \notin {"idle", "exited"}

\* the items a queue has accepted and not yet handed out
Accepted(q) == { q.queue[i] : i \in 1..Len(q.queue) } \cup q.dirty \cup q.waiting

NothingAccepted(q, qn) ==
    q.shuttingDown =>
        /\ qn.shuttingDown
        /\ qn.waiting = {}
        /\ Accepted(qn) \subseteq Accepted(q)

DequeueOf(w) == NsDequeue(w) \/ PolDequeue(w) \/ PodDequeue(w)

\* C17: no sync error stops a worker.  A worker ends only at a Get that
\* reports shutdown (idle, queue shut down and empty).  When a sync has
\* returned, with or without error, the worker is back at Get; a failed item
\* that is retried is delayed and does not enter the queue in front of the
\* pending items; and an idle worker can always take the next pending item.
C17_ErrorsKeepWorker ==
    [][ \A w \in Workers :
          /\ (wk[w].pc # "exited" /\ wk'[w].pc = "exited")
                => /\ wk[w].pc = "idle"
                   /\ QueueOf(w).shuttingDown
                   /\ QueueOf(w).queue = << >>
          /\ FinishesItem(w) => wk'[w] = IdleWorker
          /\ (FinishesItem(w) /\ wk[w].err # "" /\ NotReAdded(w))
                => (QueueOf(w))'.queue = QueueOf(w).queue
          /\ (wk[w].pc = "idle" /\ QueueOf(w).queue # << >>)
                => ENABLED DequeueOf(w) ]_vars

\* a sync of the namespace worker failed and is waiting for its retry, the
\* worker is back at Get and another item is pending in the queue
C17_Witness ==
    \E w \in NsWorkers, it \in namespaceQueue.waiting :
        /\ wk[w].pc = "idle"
        /\ NumRequeues(namespaceQueue, it) > 0
        /\ namespaceQueue.queue # << >>
        /\ Head(namespaceQueue.queue) # it

\* ------------------------------------------------------------- liveness
\* nothing is left to do in queue q: no item is queued, marked dirty, being
\* processed or waiting for a retry, and no requeue count is kept
Drained(q) ==
    /\ q.queue = << >>
    /\ q.dirty = {}
    /\ q.processing = {}
    /\ q.waiting = {}
    /\ DOMAIN q.requeues = {}

Quiet ==
    /\ Drained(namespaceQueue)
    /\ Drained(routeQueue)
    /\ Drained(podQueue)
    /\ \A w \in Workers : wk[w].pc = "idle"

\* C18: every admitted event is eventually acted on.  Under fair scheduling
\* of the workers and without shutdown, whenever an item is queued, in
\* process or waiting for its retry, a later state has all queues drained and
\* all workers back at Get: every queued item was dequeued after it was
\* enqueued and its sync ran, and every failed item was retried until it
\* succeeded or was dropped (its requeue count is forgotten).
C18_EventuallyActedOn == (~Quiet) ~> Quiet

\* every event of the run has been delivered, a sync has failed, and all of
\* it has been worked off
C18_Witness ==
    /\ Quiet
    /\ eventsLeft = 0
    /\ faults = MaxFaults
    /\ "P1" \in DOMAIN routePolicyCache

\* ---------------------------------------------------------- resolve API
\* C19: the resolve API returns the union of the dynamic and the static
\* gateway IPs and no error when both lookups succeed; when the dynamic
\* lookup fails it returns that error and no set and the static lookup is not
\* made; when only the static lookup fails it returns that error and no set.
C19_ResolveUnion ==
    resolved.made =>
        LET dyn == resolved.dyn
            sta == resolved.sta
            out == resolved.out
        IN  /\ (dyn.err = "" /\ sta.err = "")
                  => /\ out.err = ""
                     /\ out.set = {dyn.ips \cup sta.ips}
                     /\ \A s \in out.set :
                           \A ip \in ResolveIPs :
                              ip \in s <=> (ip \in dyn.ips \/ ip \in sta.ips)
            /\ dyn.err # ""
                  => /\ out.err = dyn.err
                     /\ out.set = {}
                     /\ out.calls = << "dynamic" >>
            /\ (dyn.err = "" /\ sta.err # "")
                  => /\ out.err = sta.err
                     /\ out.set = {}
            /\ dyn.err = "" => out.calls = << "dynamic", "static" >>

\* both lookups succeeded with an IP in common and an IP of their own each
C19_Witness ==
    /\ resolved.made
    /\ resolved.dyn.err = ""
    /\ resolved.sta.err = ""
    /\ resolved.dyn.ips \cap resolved.sta.ips # {}
    /\ resolved.dyn.ips \ resolved.sta.ips # {}
    /\ resolved.sta.ips \ resolved.dyn.ips # {}
    /\ resolved.out.set = {ResolveIPs}

\* ------------------------------------------------------ policy admission
Queued(q) == { q.queue[i] : i \in 1..Len(q.queue) }

\* the notification carried the policy as an object
IsObject(pl) == pl \in TypedPayloads

\* the update notification passes the filter of onPolicyUpdate
PolicyUpdateAdmitted ==
    /\ IsObject(notified.old)
    /\ IsObject(notified.new)
    /\ ObjOf(notified.old).id # ObjOf(notified.new).id
    /\ ~ObjOf(notified.new).del

\* C20: policy admission.  An add notification and a delete notification
\* (object or tombstone) hand the policy to the queue's Add, after which it
\* is queued.  An update notification hands the new object to Add if and
\* only if its generation differs from the old one's and it carries no
\* deletion timestamp; a rejected update leaves the queue as it was.
C20_PolicyAdmission ==
    /\ (notified.kind = "add" /\ IsObject(notified.new))
          => /\ routeQueue = QAdd(notified.before, ObjOf(notified.new))
             /\ ObjOf(notified.new) \in Queued(routeQueue)
    /\ (notified.kind = "delete"
        /\ notified.new.shape \in {"obj", "tombstone"})
          => /\ routeQueue = QAdd(notified.before, ObjOf(notified.new))
             /\ ObjOf(notified.new) \in Queued(routeQueue)
    /\ (notified.kind = "update" /\ PolicyUpdateAdmitted)
          => /\ routeQueue = QAdd(notified.before, ObjOf(notified.new))
             /\ ObjOf(notified.new) \in Queued(routeQueue)
    /\ (notified.kind = "update" /\ ~PolicyUpdateAdmitted)
          => routeQueue = notified.before

\* an update whose generation changed but whose new object is terminating
\* was rejected while an earlier generation is queued
C20_Witness ==
    /\ notified.kind = "update"
    /\ IsObject(notified.old)
    /\ IsObject(notified.new)
    /\ ObjOf(notified.old).id # ObjOf(notified.new).id
    /\ ObjOf(notified.new).del
    /\ routeQueue.queue # << >>
    /\ ObjOf(notified.new) \notin Queued(routeQueue)

\* --------------------------------------------------- namespace admission
\* the update notification passes the filter of onNamespaceUpdate
NamespaceUpdateAdmitted ==
    /\ notified.old \in TypedNamespaces
    /\ notified.new \in TypedNamespaces
    /\ ObjOf(notified.old).id # ObjOf(notified.new).id
    /\ ~ObjOf(notified.new).del

\* the notified namespace has been handed to Add and is queued
NamespaceEnqueued ==
    /\ namespaceQueue = QAdd(notified.before, ObjOf(notified.new))
    /\ ObjOf(notified.new) \in Queued(namespaceQueue)

\* C21: namespace admission.  An add notification and a delete notification
\* (object or tombstone) enqueue the namespace.  An update notification
\* enqueues the new object if and only if its resource version differs from
\* the old one's and it carries no deletion timestamp; a rejected update
\* leaves the namespace queue as it was.
C21_NamespaceAdmission ==
    /\ (notified.kind = "nsAdd" /\ notified.new \in TypedNamespaces)
          => NamespaceEnqueued
    /\ (notified.kind = "nsDelete"
        /\ notified.new.shape \in {"obj", "tombstone"})
          => NamespaceEnqueued
    /\ (notified.kind = "nsUpdate" /\ NamespaceUpdateAdmitted)
          => NamespaceEnqueued
    /\ (notified.kind = "nsUpdate" /\ ~NamespaceUpdateAdmitted)
          => namespaceQueue = notified.before

\* an update that carries the resource version of the old object was
\* rejected: the new object is not queued
C21_Witness ==
    /\ notified.kind = "nsUpdate"
    /\ notified.old \in TypedNamespaces
    /\ notified.new \in TypedNamespaces
    /\ ObjOf(notified.old).id = ObjOf(notified.new).id
    /\ ~ObjOf(notified.new).del
    /\ namespaceQueue.queue # << >>
    /\ ObjOf(notified.new) \notin Queued(namespaceQueue)

\* --------------------------------------------------------- pod admission
\* the notified pod has been handed to Add and is queued
PodEnqueued ==
    /\ podQueue = QAdd(notified.before, ObjOf(notified.new))
    /\ ObjOf(notified.new) \in Queued(podQueue)

\* the pod has an assigned IP or a network-status annotation
HasAddress(pod) == pod.ip # "" \/ pod.net # ""

\* labels, assigned IPs or network status of the two pods differ
PodChanged(old, new) ==
    old.labels # new.labels \/ old.ip # new.ip \/ old.net # new.net

\* C22: pod admission.  An add notification enqueues the pod if and only if
\* it has an assigned IP or a network-status annotation.  An update
\* notification enqueues the new pod if and only if labels, assigned IPs or
\* network status differ from the old pod's; a change of the deletion
\* timestamp alone is dropped.  A delete notification (object or tombstone)
\* enqueues the pod.  A notification that is not admitted leaves the pod
\* queue as it was.
C22_PodAdmission ==
    /\ (notified.kind = "podAdd" /\ notified.new \in TypedPods)
          => IF HasAddress(ObjOf(notified.new)) THEN PodEnqueued
             ELSE podQueue = notified.before
    /\ (notified.kind = "podUpdate"
        /\ notified.old \in TypedPods /\ notified.new \in TypedPods)
          => IF PodChanged(ObjOf(notified.old), ObjOf(notified.new))
             THEN PodEnqueued
             ELSE podQueue = notified.before
    /\ (notified.kind = "podUpdate"
        /\ (notified.old \notin TypedPods \/ notified.new \notin TypedPods))
          => podQueue = notified.before
    /\ (notified.kind = "podDelete"
        /\ notified.new.shape \in {"obj", "tombstone"})
          => PodEnqueued

\* an update that only sets the deletion timestamp of a pod with an IP was
\* dropped: the terminating pod is not queued
C22_Witness ==
    /\ notified.kind = "podUpdate"
    /\ notified.old \in TypedPods
    /\ notified.new \in TypedPods
    /\ ~ObjOf(notified.old).del
    /\ ObjOf(notified.new).del
    /\ ~PodChanged(ObjOf(notified.old), ObjOf(notified.new))
    /\ ObjOf(notified.new).ip # ""
    /\ ObjOf(notified.new) \notin Queued(podQueue)

\* ----------------------------------------------------- delete shapes
\* the queue the last notification was for
NotifiedQueue ==
    IF notified.kind = "nsDelete" THEN namespaceQueue
    ELSE IF notified.kind = "delete" THEN routeQueue
    ELSE podQueue

\* the same object delivered in the other shape
OtherShape(pl) ==
    IF pl.shape = "obj" THEN Tombstone(ObjOf(pl)) ELSE Typed(ObjOf(pl))

Acts(w) == wk'[w] # wk[w]

ListedGoneOrTerminating(name) ==
    \A o \in Listed(namespaceLister, name) : o.del

\* C25: namespace delete path.  A call of syncNamespace takes the Delete
\* path if and only if the namespace is absent from the listing or the
\* listed namespace has its deletion timestamp set.
C25_DeleteIffListedGone ==
    [][ \A w \in NsWorkers :
          (Dequeues(w) /\ wk'[w].path # "error")
             => (wk'[w].path = "delete"
                   <=> ListedGoneOrTerminating(Head(namespaceQueue.queue).name))
      ]_vars

\* the manager's state: both caches and the entry locks
ManagerState == << namespaceInfoCache, nsLock, routePolicyCache >>

\* C26: an irrelevant namespace is a no-op.  When syncNamespace finds no
\* cache entry for a live namespace and no policy matches it, it returns
\* success at once: no entry is created, no lock is taken or released, the
\* caches are unchanged, and the worker forgets the item.  The no-op return
\* is taken in this case only.
C26_IrrelevantNoop ==
    [][ \A w \in NsWorkers :
          /\ (wk[w].pc = "lookup" /\ Acts(w)
              /\ Item(w).name \notin DOMAIN namespaceInfoCache
              /\ wk[w].matches = {})
                => /\ wk'[w].pc = "done"
                   /\ wk'[w].path = "noop"
                   /\ wk'[w].err = ""
                   /\ ManagerState' = ManagerState
          /\ (Acts(w) /\ wk'[w].path = "noop" /\ wk[w].path # "noop")
                => /\ wk[w].pc = "lookup"
                   /\ ~Item(w).del
                   /\ Item(w).name \notin DOMAIN namespaceInfoCache
                   /\ wk[w].matches = {}
          /\ (FinishesItem(w) /\ wk[w].path = "noop")
                => /\ ManagerState' = ManagerState
                   /\ Item(w) \notin DOMAIN namespaceQueue'.requeues
                   /\ namespaceQueue'.waiting = namespaceQueue.waiting
      ]_vars

\* syncNamespace has returned from the no-op branch for the listed, live
\* namespace ns1: there is no entry and no lock
C26_Witness ==
    \E w \in NsWorkers :
        /\ wk[w].pc = "done"
        /\ wk[w].path = "noop"
        /\ \E o \in Listed(namespaceLister, "ns1") : ~o.del
        /\ "ns1" \notin DOMAIN namespaceInfoCache
        /\ Free("ns1")

\* the static hops the listed policies of pols contribute
StaticOf(pols) == UNION { o.static : o \in PolicySpecsOf(pols, {}) }

\* worker w returns from syncNamespace by the given path without error
NsReturnsBy(w, path) ==
    /\ wk[w].pc # "done"
    /\ wk'[w].pc = "done"
    /\ wk'[w].path = path
    /\ wk'[w].err = ""

\* C27: namespace add path.  The Add path is entered only for a live
\* namespace without cache entry and with at least one matching policy; it
\* creates the entry when there is still none, makes one call of
\* processAddNamespace, and when that call succeeds the entry exists, holds
\* exactly the matches as its Policies and the contributions of those
\* policies as its gateway IPs, and is unlocked.
C27_NamespaceAddPath ==
    [][ \A w \in NsWorkers :
          /\ (Acts(w) /\ wk'[w].pc = "create")
                => /\ wk[w].pc = "lookup"
                   /\ ~Item(w).del
                   /\ Item(w).name \notin DOMAIN namespaceInfoCache
                   /\ wk[w].matches # {}
          /\ (Acts(w) /\ wk'[w].pc = "add")
                => /\ wk[w].pc = "create"
                   /\ Item(w).name \in DOMAIN namespaceInfoCache'
                   /\ Item(w).name \notin DOMAIN namespaceInfoCache
                         => namespaceInfoCache'[Item(w).name]
                               = NewNamespaceInfo
          /\ (Acts(w) /\ wk[w].pc = "add") => wk'[w].pc = "done"
          /\ NsReturnsBy(w, "add")
                => LET name == Item(w).name
                   IN  /\ wk[w].pc = "add"
                       /\ name \in DOMAIN namespaceInfoCache'
                       /\ namespaceInfoCache'[name].Policies = wk[w].matches
                       /\ namespaceInfoCache'[name].static
                             = StaticOf(wk[w].matches)
                       /\ nsLock'[name] = NoWorker
      ]_vars

\* policy P1 with static hop 10.0.0.5 existed before namespace ns1; the sync
\* of the added namespace has returned from the Add path and the entry holds
\* the policy and its hop
C27_Witness ==
    \E w \in NsWorkers :
        /\ wk[w].pc = "done"
        /\ wk[w].path = "add"
        /\ wk[w].err = ""
        /\ Item(w).id = 1
        /\ "ns1" \in DOMAIN namespaceInfoCache
        /\ namespaceInfoCache["ns1"].Policies = {"P1"}
        /\ ~namespaceInfoCache["ns1"].markForDelete
        /\ GatewayIPs(namespaceInfoCache["ns1"]) = {"10.0.0.5"}

\* C28: namespace update path.  For a live namespace whose cache entry is
\* found and is no tombstone, syncNamespace calls processUpdateNamespace if
\* and only if the cached Policies and the matches differ as sets, also when
\* the matches are empty; a successful update leaves the matches as the
\* entry's Policies.  When the two sets are equal the sync changes nothing
\* and returns success.
C28_NamespaceUpdatePath ==
    [][ \A w \in NsWorkers :
          /\ (wk[w].pc = "locked" /\ Acts(w)
              /\ ~namespaceInfoCache[Item(w).name].markForDelete)
                => LET name == Item(w).name
                       info == namespaceInfoCache[name]
                   IN  IF info.Policies # wk[w].matches
                       THEN /\ wk'[w].pc = "done"
                            /\ wk'[w].path = "update"
                            /\ wk'[w].err = ""
                                  => /\ name \in DOMAIN namespaceInfoCache'
                                     /\ namespaceInfoCache'[name].Policies
                                           = wk[w].matches
                            /\ wk'[w].err # ""
                                  => namespaceInfoCache' = namespaceInfoCache
                       ELSE /\ wk'[w].pc = "done"
                            /\ wk'[w].path = "nochange"
                            /\ wk'[w].err = ""
                            /\ namespaceInfoCache' = namespaceInfoCache
                            /\ routePolicyCache' = routePolicyCache
          /\ (Acts(w) /\ wk'[w].path = "update" /\ wk[w].path # "update")
                => /\ wk[w].pc = "locked"
                   /\ ~Item(w).del
                   /\ Holds(w, Item(w).name)
                   /\ ~namespaceInfoCache[Item(w).name].markForDelete
                   /\ namespaceInfoCache[Item(w).name].Policies # wk[w].matches
      ]_vars

\* the only matching policy is gone: the sync of the namespace has returned
\* from the Update path with an empty match set and the entry holds no policy
C28_Witness ==
    \E w \in NsWorkers :
        /\ wk[w].pc = "done"
        /\ wk[w].path = "update"
        /\ wk[w].err = ""
        /\ wk[w].matches = {}
        /\ "P1" \in DOMAIN routePolicyCache
        /\ "ns1" \in DOMAIN namespaceInfoCache
        /\ namespaceInfoCache["ns1"].Policies = {}
        /\ GatewayIPs(namespaceInfoCache["ns1"]) = {}

\* ------------------------------------------------------- pod sync paths
\* the listing holds no pod of that name, or one that is terminating
PodGoneOrTerminating(name) ==
    \A o \in Listed(podLister, name) : o.del

\* the path of spec 4.5 for the pod as it is listed
ListedPodPath(name) ==
    LET N == filterNamespacesUsingPodGateway(name)
    IN  IF PodGoneOrTerminating(name)
        THEN IF N = {} THEN "noop" ELSE "delete"
        ELSE IF N = {} THEN "add" ELSE "update"

\* C29: pod sync dispatch.  With N the namespaces the reverse index records
\* for the pod, a call of syncPod takes the no-op (N empty) or the Delete
\* path (N non-empty) when the pod is absent from the listing or terminating,
\* and the Add (N empty) or the Update path (N non-empty) otherwise.
C29_PodDispatch ==
    [][ \A w \in PodWorkers :
          (Dequeues(w) /\ wk'[w].path # "error")
             => wk'[w].path = ListedPodPath(Head(podQueue.queue).name)
      ]_vars

\* the same dispatch read on the deletion timestamp of the object syncPod
\* was called with
C29_QueuedPodDispatch ==
    [][ \A w \in PodWorkers :
          (Dequeues(w) /\ wk'[w].path # "error")
             => LET pod == Head(podQueue.queue)
                    N == filterNamespacesUsingPodGateway(pod.name)
                IN  wk'[w].path =
                       IF Listed(podLister, pod.name) = {} \/ pod.del
                       THEN IF N = {} THEN "noop" ELSE "delete"
                       ELSE IF N = {} THEN "add" ELSE "update"
      ]_vars

\* ------------------------------------------------------ lookup failures
\* the lister a worker's sync looks its object up in
ListerOf(w) ==
    IF w[1] = "policy" THEN routeLister
    ELSE IF w[1] = "namespace" THEN namespaceLister
    ELSE podLister

\* the path a sync takes on NotFound: the delete branch, which for a pod
\* without reverse-index entry has nothing to delete
NotFoundPath(w, name) ==
    IF w[1] = "pod" /\ filterNamespacesUsingPodGateway(name) = {}
    THEN "noop" ELSE "delete"

\* C30: lookup failures are transient, NotFound is not an error.  In the
\* three syncs a lookup that fails with another error than NotFound returns
\* that error at once: no manager operation is invoked, caches and locks are
\* unchanged, and the worker re-adds the item rate-limited while its requeue
\* count is below maxRetries (and drops it at maxRetries).  A lookup that
\* reports NotFound returns no error from the lookup and selects the delete
\* branch.
C30_LookupFailures ==
    [][ \A w \in Workers :
          /\ (Dequeues(w) /\ wk'[w].err = "lister")
                => /\ wk'[w].pc = "done"
                   /\ wk'[w].path = "error"
                   /\ ManagerState' = ManagerState
          /\ (FinishesItem(w) /\ wk[w].err = "lister")
                => LET q == QueueOf(w)
                       it == Item(w)
                   IN  /\ ManagerState' = ManagerState
                       /\ wk'[w].pc = "idle"
                       /\ IF NumRequeues(q, it) < maxRetries
                          THEN /\ NumRequeues(QueueOf(w)', it)
                                     = NumRequeues(q, it) + 1
                               /\ ~q.shuttingDown
                                     => it \in (QueueOf(w)').waiting
                          ELSE /\ NumRequeues(QueueOf(w)', it) = 0
                               /\ (QueueOf(w)').waiting = q.waiting
          /\ (Dequeues(w) /\ wk'[w].err # "lister"
              /\ Listed(ListerOf(w), Head(QueueOf(w).queue).name) = {})
                => /\ wk'[w].err = ""
                   /\ wk'[w].path
                         = NotFoundPath(w, Head(QueueOf(w).queue).name)
      ]_vars

\* a sync has returned a lookup error and the item still has a retry left
C30_Witness ==
    \E w \in Workers :
        /\ wk[w].pc = "done"
        /\ wk[w].path = "error"
        /\ wk[w].err = "lister"
        /\ NumRequeues(QueueOf(w), Item(w)) < maxRetries

\* --------------------------------------------------------- backoff state

\* C31: backoff state reset.  The requeue count of an item changes only when
\* a worker of its queue finishes a sync of it: it is reset to zero exactly
\* when the sync succeeded or the item is dropped with its count at
\* maxRetries, and it is raised by one, never reset, on the retry path.  The
\* count never exceeds maxRetries.
C31_BackoffReset ==
    [][ /\ \A k \in Kinds :
             LET q == QueueOfKind(k)
                 qn == QueueOfKind(k)'
             IN  /\ \A it \in DOMAIN qn.requeues :
                        qn.requeues[it] \in 1..maxRetries
                 /\ \A it \in DOMAIN q.requeues \cup DOMAIN qn.requeues :
                        NumRequeues(qn, it) # NumRequeues(q, it)
                           => \E w \in Workers :
                                 /\ w[1] = k
                                 /\ FinishesItem(w)
                                 /\ Item(w) = it
        /\ \A w \in Workers :
             FinishesItem(w)
             => LET it == Item(w)
                    n == NumRequeues(QueueOf(w), it)
                    m == NumRequeues(QueueOf(w)', it)
                IN  /\ (m = 0) <=> (wk[w].err = "" \/ n >= maxRetries)
                    /\ (m # 0) => m = n + 1
      ]_vars

\* a retried item has been synced again with success: its count, still
\* raised, is about to be reset
C31_Witness ==
    \E w \in Workers :
        /\ wk[w].pc = "done"
        /\ wk[w].err = ""
        /\ NumRequeues(QueueOf(w), Item(w)) > 0

\* ------------------------------------------------- unrelated namespaces
\* the entry locks a worker holds
LocksOf(w) == { ns \in DOMAIN nsLock : nsLock[ns] = w }

\* the steps of syncNamespace and of the worker after it, for one worker
NsStep(w) ==
    \/ NsLookup(w) \/ NsLocked(w) \/ NsCreate(w) \/ NsAdd(w)
    \/ NsDelete(w) \/ NsTeardown(w) \/ NsFinish(w)

\* two namespace workers are in the syncs of different namespaces
DistinctSyncs ==
    \E w1, w2 \in NsWorkers :
        /\ MidSync(w1)
        /\ MidSync(w2)
        /\ Item(w1).name # Item(w2).name

\* C32: unrelated namespaces do not block each other.  A namespace sync
\* holds no entry lock but the one of its own namespace, changes no other
\* lock, and whenever it cannot take its next step the lock of its own
\* namespace is held by another worker; under fair scheduling every
\* namespace sync that has started returns and its worker is back at Get.
C32_UnrelatedNamespaces ==
    /\ [](\A w \in NsWorkers :
            /\ Cardinality(LocksOf(w)) <= 1
            /\ LocksOf(w) # {} => (MidSync(w) /\ LocksOf(w) = {Item(w).name})
            /\ MidSync(w)
                  => \/ ENABLED NsStep(w)
                     \/ nsLock[Item(w).name] \notin {NoWorker, w})
    /\ [][ \A w \in NsWorkers :
             Acts(w) => \A ns \in DOMAIN nsLock :
                           nsLock'[ns] # nsLock[ns]
                              => (MidSync(w) /\ ns = Item(w).name)
         ]_vars
    /\ \A w \in NsWorkers : MidSync(w) ~> ~MidSync(w)

\* one worker holds the lock of ns1 while another holds the lock of ns2
C32_Witness ==
    \E w1, w2 \in NsWorkers :
        /\ nsLock["ns1"] = w1
        /\ nsLock["ns2"] = w2
        /\ w1 # w2
        /\ DistinctSyncs

\* ------------------------------------------------------- failed add
\* C33: a failed add is retried as an add.  While no policy changes,
\* syncNamespace returns success through the no-change branch only for an
\* entry whose gateway IPs are the contributions of its Policies: a match
\* set that processAddNamespace failed to apply is applied by the retry.
C33_FailedAddRetried ==
    [][ \A w \in NsWorkers :
          NsReturnsBy(w, "nochange")
             => LET info == namespaceInfoCache[Item(w).name]
                IN  info.static = StaticOf(info.Policies)
      ]_vars

\* --------------------------------------------- match set under the lock
\* worker w takes the lock of its namespace's entry in this step and goes on
\* to write its match set: by the Add path, or by the Update path of an
\* entry that is no tombstone and holds other Policies
LocksToWrite(w) ==
    /\ Acts(w)
    /\ \/ wk'[w].pc = "add"
       \/ /\ wk'[w].pc = "locked"
          /\ ~namespaceInfoCache[Item(w).name].markForDelete
          /\ namespaceInfoCache[Item(w).name].Policies # wk[w].matches

\* C34: the match set is not stale under the lock.  The match set a
\* namespace sync writes by the Add or the Update path is the set of listed
\* policies matching the namespace at a moment when the worker holds the
\* entry lock.  It is stated for syncs that take the lock after the last
\* event of the run: the listing is then the same at every moment the lock
\* is held.
C34_MatchesUnderLock ==
    [][ \A w \in NsWorkers :
          (LocksToWrite(w) /\ eventsLeft = 0)
             => wk[w].matches = getPoliciesForNamespace(Item(w).name)
      ]_vars

\* ------------------------------------------------------ single creation
\* C35: single creation of a namespace entry.  A namespace sync that goes
\* on to the Add path (Policies = matches, processAddNamespace) has created
\* the entry itself: when two syncs have both found no entry, the second
\* does not run the Add path on the entry the first has written.
C35_SingleCreation ==
    [][ \A w \in NsWorkers :
          (Acts(w) /\ wk'[w].pc = "add")
             => Item(w).name \notin DOMAIN namespaceInfoCache
      ]_vars

\* ------------------------------------------------- resolve API snapshot
\* C36: consistent snapshot of the resolve API.  The set a call returns is
\* static \cup dynamic of the namespace's entry as it was at one instant
\* between the call's two lookups.
C36_ConsistentSnapshot ==
    (resolved.made /\ "seen" \in DOMAIN resolved)
       => \E e \in resolved.seen :
             resolved.out.set = {e.static \cup e.dynamic}

\* ------------------------------------------------------ update diff base
\* C37: policy update diff base.  When syncRoutePolicy takes the Update
\* path, the old value it hands to processUpdatePolicy is the policy the
\* cache holds at that moment and the new value is the queued object; on no
\* other path is an old value taken.  The update handler queues the new
\* object alone, so the old snapshot of the notification reaches no sync.
C37_UpdateDiffBase ==
    [][ /\ \A w \in PolWorkers :
             Dequeues(w)
                => LET it == Head(routeQueue.queue)
                   IN  IF wk'[w].path = "update"
                       THEN /\ it.name \in DOMAIN routePolicyCache
                            /\ wk'[w].old = << routePolicyCache[it.name] >>
                            /\ wk'[w].item = << it >>
                       ELSE wk'[w].old = << >>
        /\ \A w \in Workers :
             (Acts(w) /\ ~Dequeues(w) /\ wk'[w].pc # "idle")
                => wk'[w].old = wk[w].old
      ]_vars

\* the policy was updated twice before the sync ran: the Update path diffs
\* the queued object against the cached policy, which is neither the queued
\* nor the listed version
C37_Witness ==
    \E w \in PolWorkers :
        /\ wk[w].path = "update"
        /\ wk[w].old # << >>
        /\ wk[w].old[1].id < Item(w).id
        /\ \E o \in routeLister :
              /\ o.name = Item(w).name
              /\ o.id > Item(w).id

\* --------------------------------------------------------------- startup
\* an item is handed to a worker or a worker is inside a sync
Working ==
    \/ \E w \in Workers : wk[w].pc # "idle"
    \/ \E q \in { namespaceQueue, routeQueue, podQueue } : q.processing # {}

\* C38: workers start only after all three caches are synced.  Run waits
\* for the namespace, the pod and the policy cache in that order; no worker
\* takes an item before the third wait has succeeded; and when a wait fails
\* Run has returned for good: no worker ever runs, no queue is shut down,
\* and what the handlers have queued and go on queueing is never taken out.
C38_StartAfterSync ==
    /\ [](run \in StartPhases \cup FailedPhases
            => /\ ~Working
               /\ \A q \in { namespaceQueue, routeQueue, podQueue } :
                     ~q.shuttingDown)
    /\ [][ /\ run' # run
              => \/ run = "waitNamespaces"
                    /\ run' \in {"waitPods", "namespacesFailed"}
                 \/ run = "waitPods"
                    /\ run' \in {"waitRoutes", "podsFailed"}
                 \/ run = "waitRoutes"
                    /\ run' \in {"serving", "routesFailed"}
           /\ run \in FailedPhases
              => /\ run' = run
                 /\ wk' = wk
                 /\ \A k \in Kinds :
                       /\ Queued(QueueOfKind(k)) \subseteq
                             Queued(QueueOfKind(k)')
                       /\ (QueueOfKind(k)').processing = {}
         ]_vars

\* the wait for the pod cache has failed and Run has returned; a namespace
\* notification has been queued and no worker will take it
C38_Witness ==
    /\ run = "podsFailed"
    /\ namespaceQueue.queue # << >>
    /\ ~namespaceQueue.shuttingDown
    /\ \A w \in Workers : wk[w].pc = "idle"

\* ------------------------------------------------------- queue isolation
\* the informer events of a resource kind
EventOfKind(k) ==
    IF k = "policy" THEN PolicyEvent
    ELSE IF k = "namespace" THEN NamespaceEvent
    ELSE PodEvent

\* every queue but that of kind k is left as it is
OtherQueuesKept(k) ==
    \A j \in Kinds \ {k} : QueueOfKind(j)' = QueueOfKind(j)

\* C39: queue isolation.  An event handler changes only the queue of its
\* own resource kind and touches neither the cache nor a worker.  A worker
\* takes its item from the head of the queue of its own pool, hands it back
\* (requeue or forget, then Done) to that queue, changes no queue between
\* the two, and never changes the queue of another pool.  The timer of a
\* delayed re-add changes only the queue the item waits in.
C39_QueueIsolation ==
    [][ /\ \A k \in Kinds :
             EventOfKind(k)
                => /\ manager' = manager
                   /\ wk' = wk
                   /\ OtherQueuesKept(k)
        /\ \A w \in Workers :
             Acts(w)
                => /\ OtherQueuesKept(w[1])
                   /\ IF wk[w].pc = "idle"
                      THEN /\ QueueOf(w).queue # << >>
                           /\ wk'[w].item = << Head(QueueOf(w).queue) >>
                           /\ QueueOf(w)' = QGet(QueueOf(w))
                      ELSE IF wk[w].pc = "done"
                      THEN /\ Item(w) \in QueueOf(w).processing
                           /\ QueueOf(w)' =
                                 Finished(QueueOf(w), Item(w), wk[w].err)
                      ELSE QueueOf(w)' = QueueOf(w)
        /\ (wk' = wk /\ eventsLeft' = eventsLeft)
             => /\ manager' = manager
                /\ \E k \in Kinds :
                      /\ OtherQueuesKept(k)
                      /\ \E it \in QueueOfKind(k).waiting :
                            QueueOfKind(k)' = QTimer(QueueOfKind(k), it)
      ]_vars

\* a namespace worker is inside a sync while the policy queue and the pod
\* queue both hold items that no namespace step has touched, and an item
\* of the namespace queue has been requeued
C39_Witness ==
    /\ \E w \in NsWorkers : wk[w].pc \notin {"idle", "done"}
    /\ routeQueue.queue # << >>
    /\ podQueue.queue # << >>
    /\ DOMAIN namespaceQueue.requeues # {}
    /\ DOMAIN routeQueue.requeues = {}
    /\ DOMAIN podQueue.requeues = {}

\* ------------------------------------------------------------ item types
\* every item the queue holds, in any of its structures
AllItems(q) ==
    QItems(q) \cup { q.queue[i] : i \in 1..Len(q.queue) }
       \cup DOMAIN q.requeues

\* C40: queue items are well-typed.  Whatever the handlers are called
\* with (objects of another kind, nil pointers, tombstones holding either),
\* every item that is queued, being processed, waiting for a re-add or
\* counted for a retry in a queue is an object of that queue's kind, and so
\* is every item a worker has taken: the type assertion of the worker
\* succeeds and the fields it reads exist.  A handler called with such a
\* value leaves its queue as it was.
C40_ItemsWellTyped ==
    /\ [](/\ \A k \in Kinds :
               \A it \in AllItems(QueueOfKind(k)) :
                  /\ "name" \in DOMAIN it
                  /\ KindOfObject(it) = k
          /\ \A w \in Workers :
               wk[w].item # << >>
                  => /\ "name" \in DOMAIN Item(w)
                     /\ KindOfObject(Item(w)) = w[1])
    /\ [][ (notified' # notified /\ notified'.kind = "delivered")
              => UNCHANGED << queues, wk, manager >> ]_vars

\* a namespace handler has just been handed a tombstone holding an object
\* of another kind, while a namespace worker is syncing one item and the
\* namespace queue holds another
C40_Witness ==
    /\ notified.kind = "delivered"
    /\ notified.to = "namespace"
    /\ notified.shape = "tombstoneOther"
    /\ namespaceQueue.queue # << >>
    /\ \E w \in NsWorkers : wk[w].item # << >>

====
